---- MODULE Spec2Model ----
(***************************************************************************)
(* Model of the network resolution agent (openai_network_agent.py) and of  *)
(* the router query layer it caches (openwrt_query.py).                    *)
(*                                                                         *)
(* Python strings are sequences of one-character strings, so that strip(), *)
(* lower() and the address-literal parser of the ipaddress module are      *)
(* computed and not assumed.  None is the one-element sequence <<"None">>, *)
(* which no string of characters equals.                                   *)
(***************************************************************************)
EXTENDS Integers, Sequences, FiniteSets, TLC

VARIABLES
    cached_devices,    \* NetworkResolutionAgent.cached_devices: key -> value
    cache_timestamp,   \* NetworkResolutionAgent.cache_timestamp
    use_router_data,   \* NetworkResolutionAgent.use_router_data
    router_manager,    \* TRUE iff NetworkResolutionAgent.router_manager is set
    now,               \* time.time(), the wall clock
    last,              \* the last completed public call and what it did
    windowed           \* TRUE iff a router-enabled resolution call has completed
                       \* inside the time-to-live window of cache_timestamp

vars == <<cached_devices, cache_timestamp, use_router_data, router_manager,
          now, last, windowed>>

----------------------------------------------------------------------------
(* Bounds and program constants *)

cache_ttl == 300

TickLen == cache_ttl \div 2

StartTime == 4 * cache_ttl

MaxTicks == 3

MaxBulk == 2

----------------------------------------------------------------------------
(* Strings *)

None == <<"None">>

EmptyMap == [k \in {} |-> None]

Digits == <<"0", "1", "2", "3", "4", "5", "6", "7", "8", "9">>

HexLower == <<"a", "b", "c", "d", "e", "f">>

HexUpper == <<"A", "B", "C", "D", "E", "F">>

LowerLetters == <<"a", "b", "c", "d", "e", "f", "g", "h", "i", "j", "k", "l", "m",
                  "n", "o", "p", "q", "r", "s", "t", "u", "v", "w", "x", "y", "z">>

UpperLetters == <<"A", "B", "C", "D", "E", "F", "G", "H", "I", "J", "K", "L", "M",
                  "N", "O", "P", "Q", "R", "S", "T", "U", "V", "W", "X", "Y", "Z">>

Whitespace == {" ", "\t", "\n", "\r"}

Range(s) == {s[i] : i \in DOMAIN s}

\* F applied to the value of v, which is computed once
Bind(v, F(_)) == CHOOSE x \in {F(a) : a \in {v}} : TRUE

IndexIn(c, s) == CHOOSE i \in DOMAIN s : s[i] = c

LowerChar(c) == IF c \in Range(UpperLetters)
                THEN LowerLetters[IndexIn(c, UpperLetters)] ELSE c

\* str.lower()
Lower(s) == [i \in DOMAIN s |-> LowerChar(s[i])]

\* str.strip(): leading and trailing whitespace removed
Strip(s) ==
    LET keep == {i \in DOMAIN s : s[i] \notin Whitespace}
    IN  IF keep = {} THEN <<>>
        ELSE LET lo == CHOOSE i \in keep : \A j \in keep : i <= j
                 hi == CHOOSE i \in keep : \A j \in keep : j <= i
             IN  SubSeq(s, lo, hi)

\* str.split(sep) for a one-character separator
RECURSIVE SplitFrom(_, _, _, _)
SplitFrom(s, sep, i, cur) ==
    IF i > Len(s) THEN <<cur>>
    ELSE IF s[i] = sep THEN <<cur>> \o SplitFrom(s, sep, i + 1, <<>>)
    ELSE SplitFrom(s, sep, i + 1, Append(cur, s[i]))

Split(s, sep) == SplitFrom(s, sep, 1, <<>>)

DigitVal(c) == IndexIn(c, Digits) - 1

HexVal(c) == IF c \in Range(Digits) THEN DigitVal(c)
             ELSE IF c \in Range(HexLower) THEN 9 + IndexIn(c, HexLower)
             ELSE 9 + IndexIn(c, HexUpper)

RECURSIVE NumVal(_, _)
NumVal(s, base) ==
    IF s = <<>> THEN 0
    ELSE NumVal(SubSeq(s, 1, Len(s) - 1), base) * base + HexVal(s[Len(s)])

----------------------------------------------------------------------------
(* ipaddress.ip_address: IPv4 and IPv6 address literals *)

\* IPv4Address._parse_octet: 1 to 3 decimal digits, no leading zero, <= 255
OctetOk(p) ==
    /\ Len(p) \in 1..3
    /\ \A i \in DOMAIN p : p[i] \in Range(Digits)
    /\ (Len(p) > 1 => p[1] # "0")
    /\ NumVal(p, 10) <= 255

\* The four octets of an IPv4 literal, or <<>> when s is none
ParseIPv4(s) ==
    LET parts == Split(s, ".")
    IN  IF Len(parts) = 4 /\ \A i \in 1..4 : OctetOk(parts[i])
        THEN [i \in 1..4 |-> NumVal(parts[i], 10)]
        ELSE <<>>

HextetOk(p) ==
    /\ Len(p) \in 1..4
    /\ \A i \in DOMAIN p : p[i] \in Range(Digits) \cup Range(HexLower) \cup Range(HexUpper)

\* IPv6Address._ip_int_from_string on the colon-separated parts (an embedded
\* IPv4 tail already replaced by its two groups): the eight groups, or <<>>
ParseIPv6Parts(parts) ==
    LET n == Len(parts)
        skips == {i \in 2..(n - 1) : parts[i] = <<>>}
    IN  IF n < 3 \/ n > 9 \/ Cardinality(skips) > 1 THEN <<>>
        ELSE IF skips # {} THEN
            LET k == CHOOSE i \in skips : TRUE
                hi == IF parts[1] = <<>> THEN k - 2 ELSE k - 1
                lo == IF parts[n] = <<>> THEN n - k - 1 ELSE n - k
                hiParts == SubSeq(parts, 1, hi)
                loParts == SubSeq(parts, n - lo + 1, n)
            IN  IF (parts[1] = <<>> /\ hi # 0) \/ (parts[n] = <<>> /\ lo # 0)
                   \/ 8 - (hi + lo) < 1
                   \/ (\E i \in 1..hi : ~HextetOk(hiParts[i]))
                   \/ (\E j \in 1..lo : ~HextetOk(loParts[j]))
                THEN <<>>
                ELSE [i \in 1..8 |->
                        IF i <= hi THEN NumVal(hiParts[i], 16)
                        ELSE IF i > 8 - lo THEN NumVal(loParts[i - (8 - lo)], 16)
                        ELSE 0]
        ELSE IF n # 8 \/ (\E i \in 1..8 : ~HextetOk(parts[i])) THEN <<>>
        ELSE [i \in 1..8 |-> NumVal(parts[i], 16)]

\* The eight groups of an IPv6 literal (scope id split off), or <<>>
ParseIPv6(s) ==
    LET scoped == Split(s, "%")
        addr == scoped[1]
        parts == Split(addr, ":")
        n == Len(parts)
        v4 == IF n >= 1 /\ "." \in Range(parts[n]) THEN ParseIPv4(parts[n]) ELSE <<>>
    IN  IF Len(scoped) > 2 \/ (Len(scoped) = 2 /\ scoped[2] = <<>>) THEN <<>>
        ELSE IF n >= 1 /\ "." \in Range(parts[n])
        THEN LET g == ParseIPv6Parts(SubSeq(parts, 1, n - 1)
                                     \o << <<"0">>, <<"0">> >>)
             IN  IF v4 = <<>> \/ g = <<>> THEN <<>>
                 ELSE [i \in 1..8 |-> IF i = 7 THEN v4[1] * 256 + v4[2]
                                      ELSE IF i = 8 THEN v4[3] * 256 + v4[4]
                                      ELSE g[i]]
        ELSE ParseIPv6Parts(parts)

\* NetworkResolutionAgent._is_valid_ip: ip_address raises ValueError or not
IsValidIPCompute(s) == ParseIPv4(s) # <<>> \/ ParseIPv6(s) # <<>>

\* IPv4Address.is_private: membership of the reserved networks
IsPrivateV4(o) ==
    \/ o[1] \in {0, 10, 127}
    \/ o[1] = 169 /\ o[2] = 254
    \/ o[1] = 172 /\ o[2] \in 16..31
    \/ o[1] = 192 /\ o[2] = 0 /\ o[3] = 0 /\ (o[4] \in 0..7 \/ o[4] \in 170..171)
    \/ o[1] = 192 /\ o[2] = 0 /\ o[3] = 2
    \/ o[1] = 192 /\ o[2] = 168
    \/ o[1] = 198 /\ o[2] \in 18..19
    \/ o[1] = 198 /\ o[2] = 51 /\ o[3] = 100
    \/ o[1] = 203 /\ o[2] = 0 /\ o[3] = 113
    \/ o[1] >= 240

\* IPv6Address.is_private on the eight groups
IsPrivateV6(g) ==
    IF (\A i \in 1..5 : g[i] = 0) /\ g[6] = 65535       \* ::ffff:a.b.c.d
    THEN IsPrivateV4(<<g[7] \div 256, g[7] % 256, g[8] \div 256, g[8] % 256>>)
    ELSE
    \/ (\A i \in 1..7 : g[i] = 0) /\ g[8] \in {0, 1}    \* ::/128, ::1/128
    \/ g[1] \in 64512..65023                       \* fc00::/7
    \/ g[1] \in 65152..65215                       \* fe80::/10
    \/ g[1] = 8193 /\ g[2] = 3512                  \* 2001:db8::/32
    \/ g[1] = 8193 /\ g[2] \in 0..511              \* 2001::/23
    \/ g[1] = 256 /\ g[2] = 0 /\ g[3] = 0 /\ g[4] = 0   \* 100::/64

\* NetworkResolutionAgent._is_private_ip
IsPrivateIPCompute(s) ==
    IF ParseIPv4(s) # <<>> THEN IsPrivateV4(ParseIPv4(s))
    ELSE IF ParseIPv6(s) # <<>> THEN IsPrivateV6(ParseIPv6(s))
    ELSE FALSE

----------------------------------------------------------------------------
(* The strings the model's inputs and environment are drawn from *)

S_pi == <<"p", "i">>

S_Pi == <<"P", "i">>

S_PI_pad == <<" ", "P", "I", " ">>

S_nas == <<"n", "a", "s">>

S_dev5 == <<"d", "e", "v", "i", "c", "e", "-", "5">>

S_pi_lan == <<"p", "i", ".", "l", "a", "n">>

S_x_io == <<"x", ".", "i", "o">>

S_bad == <<"x", "-", "y">>

S_part == <<"1", ".", "2", ".", "3">>

S_dots == <<"a", ".", ".", "b">>

S_empty == <<>>

IP_5 == <<"1", "0", ".", "0", ".", "0", ".", "5">>

IP_9 == <<"1", "0", ".", "0", ".", "0", ".", "9">>

IP_7 == <<"1", "0", ".", "0", ".", "0", ".", "7">>

IP_5_pad == <<" ", "1", "0", ".", "0", ".", "0", ".", "5">>

IP_pub == <<"8", ".", "8", ".", "8", ".", "8">>

IP_v6 == <<"f", "d", "0", "0", ":", ":", "1">>

IP_scoped == <<"f", "e", "8", "0", ":", ":", "1", "%", "z", "z">>

IP_any == <<"0", ".", "0", ".", "0", ".", "0">>

IP_part == <<"1", ".", "2", ".", "0", ".", "3">>

MAC_a == <<"a", "a", ":", "0", "1">>

MAC_b == <<"a", "a", ":", "0", "2">>

LEASE_t == <<"1", "6", "9", "9">>

\* Every string an operation of the model can meet
AllStrings ==
    LET base == {S_pi, S_Pi, S_PI_pad, S_nas, S_dev5, S_pi_lan, S_x_io, S_bad, S_part, S_empty, S_dots, IP_5, IP_9, IP_7, IP_5_pad, IP_pub, IP_v6, IP_scoped, IP_any, IP_part, MAC_a, MAC_b, LEASE_t}
    IN  base \cup {Strip(s) : s \in base} \cup {Lower(Strip(s)) : s \in base}

ValidIPTable == [s \in AllStrings |-> IsValidIPCompute(s)]

IPv4Table == [s \in AllStrings |-> ParseIPv4(s) # <<>>]

PrivateIPTable == [s \in AllStrings |-> IsPrivateIPCompute(s)]

\* The names the idna codec rejects before any lookup is made: an empty label
\* that is not the last one, or a label of more than 63 characters
IdnaRejects(s) ==
    LET labels == Split(s, ".")
    IN  \/ \E i \in 1..(Len(labels) - 1) : labels[i] = <<>>
        \/ \E i \in DOMAIN labels : Len(labels[i]) > 63

IdnaTable == [s \in AllStrings |-> IdnaRejects(s)]

\* The address literals whose zone names no interface of the host: a scope id
\* that is not an interface index
UnknownZone(s) ==
    LET parts == Split(s, "%")
    IN  Len(parts) = 2 /\ \E i \in DOMAIN parts[2] : parts[2][i] \notin Range(Digits)

ZoneTable == [s \in AllStrings |-> UnknownZone(s)]

\* NetworkResolutionAgent._is_valid_ip
IsValidIP(s) == ValidIPTable[s]

\* NetworkResolutionAgent._is_private_ip
IsPrivateIP(s) == PrivateIPTable[s]

----------------------------------------------------------------------------
(* The environment: the router backend, the resolver and the ping tool *)

\* openwrt_query.RouterDevice
RouterDevice(ip, host, mac) ==
    [ip_address |-> ip, hostname |-> host, mac_address |-> mac,
     lease_time |-> LEASE_t, interface |-> None]

\* Device lists RouterQueryManager.get_connected_devices can return: none, two
\* named devices, one of them alone, two devices sharing a lowercased hostname,
\* a device whose hostname is itself an address literal, and a device whose
\* hostname is the address of another one
Batches ==
    { <<>>,
      <<RouterDevice(IP_5, S_Pi, MAC_a), RouterDevice(IP_9, S_nas, MAC_b)>>,
      <<RouterDevice(IP_9, S_nas, MAC_b)>>,
      <<RouterDevice(IP_5, S_dev5, MAC_a), RouterDevice(IP_9, S_dev5, MAC_b)>>,
      <<RouterDevice(IP_5, IP_7, MAC_a)>>,
      <<RouterDevice(IP_5, S_pi, MAC_a), RouterDevice(IP_9, IP_5, MAC_b)>> }

\* get_connected_devices either raises or returns a device list
BackendOutcomes ==
    {[raises |-> TRUE, devices |-> <<>>]}
        \cup {[raises |-> FALSE, devices |-> b] : b \in Batches}

NoBackend == [raises |-> TRUE, devices |-> <<>>]

\* What the system resolver knows when it answers
DnsTable == [h \in {S_pi, S_x_io, S_part} |->
                IF h = S_pi THEN IP_7 ELSE IF h = S_x_io THEN IP_pub ELSE IP_part]

RdnsTable == [a \in {IP_5, IP_pub} |-> IF a = IP_5 THEN S_pi_lan ELSE S_x_io]

DnsModes == {"up", "down"}

\* ping -c 1 -a: the tool fails to run, exits non-zero, or prints a PING line
\* naming the address itself or a host name
PingNameOutcomes ==
    { [raises |-> TRUE, returncode |-> 1, name |-> <<>>],
      [raises |-> FALSE, returncode |-> 1, name |-> <<>>],
      [raises |-> FALSE, returncode |-> 0, name |-> None],
      [raises |-> FALSE, returncode |-> 0, name |-> S_pi_lan] }

\* ping -c 1 -W: exit 0; exit non-zero, TimeoutExpired or FileNotFoundError;
\* any other exception of subprocess.run
PingModes == {"ok", "fail", "oserror"}

EnvDefault ==
    [backend |-> NoBackend, dns |-> "down", rdns |-> "down",
     pinga |-> [raises |-> FALSE, returncode |-> 1, name |-> <<>>], ping |-> "fail"]

\* The environments that differ in the parts a call can consult
Envs(useBackend, useDns, useRdns, usePinga, usePing) ==
    [backend : IF useBackend THEN BackendOutcomes ELSE {EnvDefault.backend},
     dns : IF useDns THEN DnsModes ELSE {EnvDefault.dns},
     rdns : IF useRdns THEN DnsModes ELSE {EnvDefault.rdns},
     pinga : IF usePinga THEN PingNameOutcomes ELSE {EnvDefault.pinga},
     ping : IF usePing THEN PingModes ELSE {EnvDefault.ping}]

\* socket.gethostbyname: the empty name is the wildcard address, a dotted quad
\* is returned as it is, any other name is looked up
GetHostByName(env, h) ==
    IF h = S_empty THEN [exc |-> "none", val |-> IP_any, msg |-> ""]
    ELSE IF IPv4Table[h] THEN [exc |-> "none", val |-> h, msg |-> ""]
    ELSE IF IdnaTable[h]
         THEN [exc |-> "UnicodeError", val |-> None, msg |-> "encoding with 'idna' codec failed"]
    ELSE IF env.dns = "up" /\ h \in DOMAIN DnsTable
         THEN [exc |-> "none", val |-> DnsTable[h], msg |-> ""]
    ELSE [exc |-> "gaierror", val |-> None, msg |-> "Name or service not known"]

\* socket.gethostbyaddr
GetHostByAddr(env, ip) ==
    IF ZoneTable[ip] THEN [exc |-> "gaierror", val |-> None, msg |-> "Name or service not known"]
    ELSE IF env.rdns = "up" /\ ip \in DOMAIN RdnsTable
         THEN [exc |-> "none", val |-> RdnsTable[ip], msg |-> ""]
    ELSE [exc |-> "herror", val |-> None, msg |-> "Host name lookup failure"]

----------------------------------------------------------------------------
(* NetworkResolutionAgent *)

\* dataclass ResolutionResult
ResolutionResult(success, query, result, source, info, error, t) ==
    [success |-> success, query |-> query, result |-> result, source |-> source,
     additional_info |-> info, error |-> error, timestamp |-> t]

\* d[k] = v
DictPut(d, k, v) == [x \in DOMAIN d \cup {k} |-> IF x = k THEN v ELSE d[x]]

\* d.update(other)
DictUpdate(d, other) ==
    [x \in DOMAIN d \cup DOMAIN other |-> IF x \in DOMAIN other THEN other[x] ELSE d[x]]

\* {device.hostname.lower(): device.ip_address for device in devices}
RECURSIVE ForwardMap(_)
ForwardMap(devices) ==
    IF devices = <<>> THEN EmptyMap
    ELSE LET d == devices[Len(devices)]
         IN  DictPut(ForwardMap(SubSeq(devices, 1, Len(devices) - 1)),
                     Lower(d.hostname), d.ip_address)

\* {device.ip_address: device.hostname for device in devices}
RECURSIVE ReverseMap(_)
ReverseMap(devices) ==
    IF devices = <<>> THEN EmptyMap
    ELSE LET d == devices[Len(devices)]
         IN  DictPut(ReverseMap(SubSeq(devices, 1, Len(devices) - 1)),
                     d.ip_address, d.hostname)

\* Variant: the new entries are merged into the old cache
BuildCacheKeepingOld(old, devices) ==
    DictUpdate(old, DictUpdate(ForwardMap(devices), ReverseMap(devices)))

\* Variant: only the hostname -> address direction is stored
BuildCacheOneWay(old, devices) == ForwardMap(devices)

\* The cache a refresh assigns from a device list
BuildCache(old, devices) == DictUpdate(ForwardMap(devices), ReverseMap(devices))

\* Variant: the backend is queried on every call, whatever the cache age
RefreshRouterCacheEveryCall(c, ts, t, env) ==
    IF router_manager
    THEN IF env.backend.raises
         THEN [cache |-> c, ts |-> ts, ret |-> DOMAIN c # {}, ev |-> <<"backend">>]
         ELSE [cache |-> DictUpdate(ForwardMap(env.backend.devices),
                                    ReverseMap(env.backend.devices)),
               ts |-> t, ret |-> TRUE, ev |-> <<"backend">>]
    ELSE [cache |-> c, ts |-> ts, ret |-> DOMAIN c # {}, ev |-> <<>>]

\* Variant: the cache is cleared before the backend is queried, so a failing
\* backend leaves it empty
RefreshRouterCacheClearingFirst(c, ts, t, env) ==
    IF t - ts > cache_ttl /\ router_manager
    THEN IF env.backend.raises
         THEN [cache |-> EmptyMap, ts |-> ts, ret |-> FALSE, ev |-> <<"backend">>]
         ELSE [cache |-> DictUpdate(ForwardMap(env.backend.devices),
                                    ReverseMap(env.backend.devices)),
               ts |-> t, ret |-> TRUE, ev |-> <<"backend">>]
    ELSE [cache |-> c, ts |-> ts, ret |-> DOMAIN c # {}, ev |-> <<>>]

\* _refresh_router_cache at time t on cache c with timestamp ts
RefreshRouterCache(c, ts, t, env) ==
    IF t - ts > cache_ttl /\ router_manager
    THEN IF env.backend.raises
         THEN [cache |-> c, ts |-> ts, ret |-> DOMAIN c # {}, ev |-> <<"backend">>]
         ELSE [cache |-> BuildCache(c, env.backend.devices), ts |-> t, ret |-> TRUE,
               ev |-> <<"backend">>]
    ELSE [cache |-> c, ts |-> ts, ret |-> DOMAIN c # {}, ev |-> <<>>]

NoRefresh(c, ts) == [cache |-> c, ts |-> ts, ret |-> FALSE, ev |-> <<>>]

\* Variant: the failure record keeps the default source of the dataclass
HostnameFailureSourceUnknown(hostname, dns, t) ==
    [raised |-> "none",
     res |-> ResolutionResult(FALSE, hostname, None, "unknown", None,
                              <<"DNS resolution failed: ", dns.msg>>, t)]

\* Variant: only socket.gaierror is caught, anything else propagates
HostnameFailureReraising(hostname, dns, t) ==
    [raised |-> IF dns.exc = "gaierror" THEN "none" ELSE dns.exc,
     res |-> ResolutionResult(FALSE, hostname, None, "dns", None,
                              <<"DNS resolution failed: ", dns.msg>>, t)]

\* The except clauses of resolve_hostname_to_ip: gaierror, then Exception
HostnameFailure(hostname, dns, t) ==
    IF dns.exc = "gaierror"
    THEN [raised |-> "none",
          res |-> ResolutionResult(FALSE, hostname, None, "dns", None,
                                   <<"DNS resolution failed: ", dns.msg>>, t)]
    ELSE [raised |-> "none",
          res |-> ResolutionResult(FALSE, hostname, None, "dns", None,
                                   <<"Unexpected error: ", dns.msg>>, t)]

\* resolve_hostname_to_ip once _refresh_router_cache has returned rf (lines
\* 120-163): the cache lookup, then the system resolver
HostnameLookup(rf, hostname, tryRouter, t, env) ==
    LET looked == tryRouter /\ rf.ret
        hit == looked /\ hostname \in DOMAIN rf.cache /\ IsValidIP(rf.cache[hostname])
        dns == GetHostByName(env, hostname)
        out == IF hit
               THEN [raised |-> "none",
                     res |-> ResolutionResult(TRUE, hostname, rf.cache[hostname], "router_data",
                                              [cache_age |-> t - rf.ts], None, t)]
               ELSE IF dns.exc = "none"
               THEN [raised |-> "none",
                     res |-> ResolutionResult(TRUE, hostname, dns.val, "dns",
                                              [method |-> "dns_lookup", address_family |-> "AF_INET"],
                                              None, t)]
               ELSE HostnameFailure(hostname, dns, t)
    IN  [cache |-> rf.cache, ts |-> rf.ts, raised |-> out.raised, res |-> out.res,
         ev |-> rf.ev \o (IF hit THEN <<>> ELSE <<"dns">>),
         reads |-> IF looked THEN <<rf.cache>> ELSE <<>>]

\* Variant: the router data are consulted whatever include_router_data says
ResolveHostnameToIpAlwaysRouter(c, ts, t, raw, include, env) ==
    Bind(IF use_router_data THEN RefreshRouterCache(c, ts, t, env) ELSE NoRefresh(c, ts),
         LAMBDA rf : HostnameLookup(rf, Lower(Strip(raw)), use_router_data, t, env))

\* Variant: the hostname is looked up as the caller spelled it
ResolveHostnameToIpVerbatim(c, ts, t, raw, include, env) ==
    Bind(IF include /\ use_router_data THEN RefreshRouterCache(c, ts, t, env)
         ELSE NoRefresh(c, ts),
         LAMBDA rf : HostnameLookup(rf, raw, include /\ use_router_data, t, env))

\* resolve_hostname_to_ip(hostname, include_router_data)
ResolveHostnameToIp(c, ts, t, raw, include, env) ==
    Bind(IF include /\ use_router_data THEN RefreshRouterCache(c, ts, t, env)
         ELSE NoRefresh(c, ts),
         LAMBDA rf : HostnameLookup(rf, Lower(Strip(raw)), include /\ use_router_data, t, env))

\* _try_ping_hostname_resolution: the name the PING line reports, or None
TryPingHostnameResolution(env, ip) ==
    LET name == IF env.pinga.name = None THEN ip ELSE env.pinga.name
    IN  IF env.pinga.raises \/ env.pinga.returncode # 0 THEN None
        ELSE IF name # <<>> /\ name # ip THEN name
        ELSE None

\* Variant: the ping fallback is tried for public addresses too
IpFailurePingingAnyAddress(ip, rdns, env, t) ==
    LET pinged == rdns.exc = "herror"
        name == IF pinged THEN TryPingHostnameResolution(env, ip) ELSE None
    IN  IF rdns.exc = "herror"
        THEN IF name # None
             THEN [raised |-> "none", ev |-> <<"rdns", "ping_a">>,
                   res |-> ResolutionResult(TRUE, ip, name, "ping_resolution",
                                            [method |-> "ping_hostname"], None, t)]
             ELSE [raised |-> "none", ev |-> <<"rdns", "ping_a">>,
                   res |-> ResolutionResult(FALSE, ip, None, "reverse_dns", None,
                                            <<"Reverse DNS lookup failed: ", rdns.msg>>, t)]
        ELSE [raised |-> "none", ev |-> <<"rdns">>,
              res |-> ResolutionResult(FALSE, ip, None, "reverse_dns", None,
                                       <<"Unexpected error: ", rdns.msg>>, t)]

\* The except clauses of resolve_ip_to_hostname: herror (with the ping
\* fallback for private addresses), then Exception
IpFailure(ip, rdns, env, t) ==
    LET pinged == rdns.exc = "herror" /\ IsPrivateIP(ip)
        name == IF pinged THEN TryPingHostnameResolution(env, ip) ELSE None
    IN  IF rdns.exc = "herror"
        THEN IF name # None
             THEN [raised |-> "none", ev |-> <<"rdns", "ping_a">>,
                   res |-> ResolutionResult(TRUE, ip, name, "ping_resolution",
                                            [method |-> "ping_hostname"], None, t)]
             ELSE [raised |-> "none",
                   ev |-> IF pinged THEN <<"rdns", "ping_a">> ELSE <<"rdns">>,
                   res |-> ResolutionResult(FALSE, ip, None, "reverse_dns", None,
                                            <<"Reverse DNS lookup failed: ", rdns.msg>>, t)]
        ELSE [raised |-> "none", ev |-> <<"rdns">>,
              res |-> ResolutionResult(FALSE, ip, None, "reverse_dns", None,
                                       <<"Unexpected error: ", rdns.msg>>, t)]

\* Variant: a cached value is returned without looking at its shape
IpLookupTrustingCache(rf, ip, tryRouter, t, env) ==
    LET looked == tryRouter /\ rf.ret
        hit == looked /\ ip \in DOMAIN rf.cache
        rdns == GetHostByAddr(env, ip)
        out == IF hit
               THEN [raised |-> "none", ev |-> <<>>,
                     res |-> ResolutionResult(TRUE, ip, rf.cache[ip], "router_data",
                                              [cache_age |-> t - rf.ts], None, t)]
               ELSE IF rdns.exc = "none"
               THEN [raised |-> "none", ev |-> <<"rdns">>,
                     res |-> ResolutionResult(TRUE, ip, rdns.val, "reverse_dns",
                                              [method |-> "reverse_dns_lookup"], None, t)]
               ELSE IpFailure(ip, rdns, env, t)
    IN  Bind(out, LAMBDA o :
             [cache |-> rf.cache, ts |-> rf.ts, raised |-> o.raised, res |-> o.res,
              ev |-> rf.ev \o o.ev,
              reads |-> IF looked THEN <<rf.cache>> ELSE <<>>])

\* resolve_ip_to_hostname once _refresh_router_cache has returned rf (lines
\* 189-236): the cache lookup, then the reverse lookup
IpLookup(rf, ip, tryRouter, t, env) ==
    LET looked == tryRouter /\ rf.ret
        hit == looked /\ ip \in DOMAIN rf.cache /\ ~IsValidIP(rf.cache[ip])
        rdns == GetHostByAddr(env, ip)
        out == IF hit
               THEN [raised |-> "none", ev |-> <<>>,
                     res |-> ResolutionResult(TRUE, ip, rf.cache[ip], "router_data",
                                              [cache_age |-> t - rf.ts], None, t)]
               ELSE IF rdns.exc = "none"
               THEN [raised |-> "none", ev |-> <<"rdns">>,
                     res |-> ResolutionResult(TRUE, ip, rdns.val, "reverse_dns",
                                              [method |-> "reverse_dns_lookup"], None, t)]
               ELSE IpFailure(ip, rdns, env, t)
    IN  Bind(out, LAMBDA o :
             [cache |-> rf.cache, ts |-> rf.ts, raised |-> o.raised, res |-> o.res,
              ev |-> rf.ev \o o.ev,
              reads |-> IF looked THEN <<rf.cache>> ELSE <<>>])

\* Variant: the argument is not validated before the lookups
ResolveIpToHostnameUnvalidated(c, ts, t, raw, include, env) ==
    Bind(IF include /\ use_router_data THEN RefreshRouterCache(c, ts, t, env)
         ELSE NoRefresh(c, ts),
         LAMBDA rf : IpLookup(rf, Strip(raw), include /\ use_router_data, t, env))

\* resolve_ip_to_hostname(ip_address, include_router_data)
ResolveIpToHostname(c, ts, t, raw, include, env) ==
    IF ~IsValidIP(Strip(raw))
    THEN [cache |-> c, ts |-> ts, raised |-> "none", ev |-> <<>>, reads |-> <<>>,
          res |-> ResolutionResult(FALSE, Strip(raw), None, "validation", None,
                                   <<"Invalid IP address format">>, t)]
    ELSE Bind(IF include /\ use_router_data THEN RefreshRouterCache(c, ts, t, env)
              ELSE NoRefresh(c, ts),
              LAMBDA rf : IpLookup(rf, Strip(raw), include /\ use_router_data, t, env))

\* Variant: a result equal to one already collected is not appended again
BulkAppendOnce(acc, r, callee) ==
    [cache |-> r.cache, ts |-> r.ts, raised |-> r.raised,
     results |-> IF r.raised = "none" /\ r.res \notin Range(acc.results)
                 THEN Append(acc.results, r.res) ELSE acc.results,
     ev |-> acc.ev \o r.ev, reads |-> acc.reads \o r.reads,
     calls |-> Append(acc.calls, callee)]

\* results.append(result) in the loop of bulk_resolve
BulkAppend(acc, r, callee) ==
    [cache |-> r.cache, ts |-> r.ts, raised |-> r.raised,
     results |-> IF r.raised = "none" THEN Append(acc.results, r.res) ELSE acc.results,
     ev |-> acc.ev \o r.ev, reads |-> acc.reads \o r.reads,
     calls |-> Append(acc.calls, callee)]

\* Variant: the type of the query is detected whatever auto_detect_type says
BulkStepAlwaysDetecting(acc, query, t, auto, env) ==
    IF acc.raised # "none" THEN acc
    ELSE IF IsValidIP(query)
    THEN Bind(ResolveIpToHostname(acc.cache, acc.ts, t, query, TRUE, env),
              LAMBDA r : BulkAppend(acc, r, "resolve_ip_to_hostname"))
    ELSE Bind(ResolveHostnameToIp(acc.cache, acc.ts, t, query, TRUE, env),
              LAMBDA r : BulkAppend(acc, r, "resolve_hostname_to_ip"))

\* One iteration of the loop of bulk_resolve
BulkStep(acc, query, t, auto, env) ==
    IF acc.raised # "none" THEN acc
    ELSE IF auto /\ IsValidIP(query)
    THEN Bind(ResolveIpToHostname(acc.cache, acc.ts, t, query, TRUE, env),
              LAMBDA r : BulkAppend(acc, r, "resolve_ip_to_hostname"))
    ELSE Bind(ResolveHostnameToIp(acc.cache, acc.ts, t, query, TRUE, env),
              LAMBDA r : BulkAppend(acc, r, "resolve_hostname_to_ip"))

\* bulk_resolve(queries, auto_detect_type): acc[i] is the state of the loop
\* after the i-th query
BulkResolve(c, ts, t, queries, auto, env) ==
    LET acc[i \in 0..Len(queries)] ==
            IF i = 0
            THEN [cache |-> c, ts |-> ts, raised |-> "none", results |-> <<>>,
                  ev |-> <<>>, reads |-> <<>>, calls |-> <<>>]
            ELSE Bind(acc[i - 1], LAMBDA a : BulkStep(a, queries[i], t, auto, env))
    IN  acc[Len(queries)]

\* Variant: a ping that times out or cannot be found is not caught
PingHostUncaught(env) ==
    IF env.ping = "oserror" THEN [exc |-> "OSError", val |-> FALSE, msg |-> "Operation not permitted"]
    ELSE IF env.ping = "fail" THEN [exc |-> "TimeoutExpired", val |-> FALSE, msg |-> "timed out"]
    ELSE [exc |-> "none", val |-> TRUE, msg |-> ""]

\* _ping_host: TimeoutExpired and FileNotFoundError are caught, nothing else
PingHost(env) ==
    IF env.ping = "oserror" THEN [exc |-> "OSError", val |-> FALSE, msg |-> "Operation not permitted"]
    ELSE [exc |-> "none", val |-> env.ping = "ok", msg |-> ""]

\* Python truthiness of an optional string
Truthy(s) == s # None /\ s # <<>>

\* The except clause of get_network_info
NetworkInfoFailure(target, exc, msg, t) ==
    [raised |-> "none",
     res |-> ResolutionResult(FALSE, target, None, "network_info", None,
                              <<"Network info gathering failed: ", msg>>, t)]

\* The return statement of get_network_info, reached after the resolve call
\* returned r, the reachability probe returned ping and the second
\* _refresh_router_cache returned rf
NetworkInfoResult(r, ping, rf, again, ip_address, hostname, is_private, t, target) ==
    LET is_ip == IsValidIP(target)
        found == \E k \in DOMAIN rf.cache : k = target \/ rf.cache[k] = target
        info == [input_type |-> IF is_ip THEN "ip_address" ELSE "hostname",
                 is_private |-> is_private,
                 is_local |-> is_private /\ ping.val,
                 ping_successful |-> ping.val,
                 ip_address |-> ip_address,
                 hostname |-> hostname,
                 has_found_in_router |-> again,
                 found_in_router |-> again /\ found]
    IN  [cache |-> rf.cache, ts |-> rf.ts, raised |-> "none",
         res |-> ResolutionResult(TRUE, target, None, "network_info", info, None, t),
         ev |-> r.ev \o (IF Truthy(ip_address) THEN <<"ping">> ELSE <<>>) \o rf.ev,
         reads |-> r.reads \o (IF again THEN <<rf.cache>> ELSE <<>>)]

\* get_network_info(target) once its resolve call has returned r
NetworkInfoFrom(r, t, target, env) ==
    LET is_ip == IsValidIP(target)
        got == IF r.res.success THEN r.res.result ELSE None
        ip_address == IF is_ip THEN target ELSE got
        hostname == IF is_ip THEN got ELSE target
        is_private == IF is_ip THEN IsPrivateIP(target)
                      ELSE IF Truthy(ip_address) THEN IsPrivateIP(ip_address) ELSE FALSE
        pinged == Truthy(ip_address)
        ping == IF pinged THEN PingHost(env) ELSE [exc |-> "none", val |-> FALSE, msg |-> ""]
        again == use_router_data /\ is_private
    IN  IF r.raised # "none"
        THEN [cache |-> r.cache, ts |-> r.ts, ev |-> r.ev, reads |-> r.reads]
             @@ NetworkInfoFailure(target, r.raised, "", t)
        ELSE IF ping.exc # "none"
        THEN [cache |-> r.cache, ts |-> r.ts, ev |-> Append(r.ev, "ping"), reads |-> r.reads]
             @@ NetworkInfoFailure(target, ping.exc, ping.msg, t)
        ELSE Bind(IF again THEN RefreshRouterCache(r.cache, r.ts, t, env)
                  ELSE NoRefresh(r.cache, r.ts),
                  LAMBDA rf : NetworkInfoResult(r, ping, rf, again, ip_address, hostname,
                                                is_private, t, target))

\* get_network_info(target)
GetNetworkInfo(c, ts, t, target, env) ==
    Bind(IF IsValidIP(target) THEN ResolveIpToHostname(c, ts, t, target, TRUE, env)
         ELSE ResolveHostnameToIp(c, ts, t, target, TRUE, env),
         LAMBDA r : NetworkInfoFrom(r, t, target, env))

\* NetworkResolutionAgent.__init__ with _init_router_manager
AgentInit(param, available, initFails) ==
    [use_router_data |-> param /\ available /\ ~initFails,
     router_manager |-> param /\ available /\ ~initFails,
     cached_devices |-> EmptyMap,
     cache_timestamp |-> 0]

----------------------------------------------------------------------------
(* The state machine: a caller makes one public call at a time *)

\* Raw query strings callers pass
Queries ==
    {S_pi, S_PI_pad, S_bad, S_empty, S_dots, IP_5, IP_9, IP_7, IP_5_pad, IP_pub, IP_v6, IP_scoped}

\* The queries bulk_resolve is called with
BulkQueries == {S_PI_pad, IP_5, IP_5_pad, IP_pub}

RECURSIVE SeqsUpTo(_, _)
SeqsUpTo(S, n) ==
    IF n = 0 THEN {<<>>}
    ELSE LET shorter == SeqsUpTo(S, n - 1)
         IN  shorter \cup {Append(q, x) : q \in {p \in shorter : Len(p) = n - 1}, x \in S}

\* The environments bulk_resolve is run in: the backend failing or returning
\* no or two devices, with the resolver answering or not, and the ping tool failing or naming the host
BulkEnvs ==
    { [backend |-> b, dns |-> m, rdns |-> m, pinga |-> p, ping |-> EnvDefault.ping] :
        b \in {o \in BackendOutcomes : Len(o.devices) # 1},
        m \in DnsModes,
        p \in {EnvDefault.pinga, [raises |-> FALSE, returncode |-> 0, name |-> S_pi_lan]} }

\* The parts of the environment a call consulted; the rest is set to the default
UsedEnv(env, ev) ==
    [backend |-> IF "backend" \in Range(ev) THEN env.backend ELSE EnvDefault.backend,
     dns |-> IF "dns" \in Range(ev) THEN env.dns ELSE EnvDefault.dns,
     rdns |-> IF "rdns" \in Range(ev) THEN env.rdns ELSE EnvDefault.rdns,
     pinga |-> IF "ping_a" \in Range(ev) THEN env.pinga ELSE EnvDefault.pinga,
     ping |-> IF "ping" \in Range(ev) THEN env.ping ELSE EnvDefault.ping]

Idle == [op |-> "idle"]

Stale == now - cache_timestamp > cache_ttl

Call(op, queries, include, auto, env, out, results) ==
    [op |-> op, queries |-> queries, include |-> include, auto |-> auto,
     env |-> UsedEnv(env, out.ev),
     t |-> now, pre |-> [cache |-> cached_devices, ts |-> cache_timestamp],
     windowed |-> windowed, results |-> results, raised |-> out.raised, ev |-> out.ev,
     reads |-> out.reads]

Init ==
    /\ \E param \in BOOLEAN, available \in BOOLEAN, initFails \in BOOLEAN :
         LET a == AgentInit(param, available, initFails)
         IN  /\ use_router_data = a.use_router_data
             /\ router_manager = a.router_manager
             /\ cached_devices = a.cached_devices
             /\ cache_timestamp = a.cache_timestamp
    /\ now = StartTime
    /\ last = Idle
    /\ windowed = FALSE

\* time passes between calls
Tick ==
    /\ last.op = "idle"
    /\ now < StartTime + MaxTicks * TickLen
    /\ now' = now + TickLen
    /\ UNCHANGED <<cached_devices, cache_timestamp, use_router_data, router_manager,
                   last, windowed>>

\* the caller has read the result of the call
Consume ==
    /\ last.op # "idle"
    /\ last' = Idle
    /\ UNCHANGED <<cached_devices, cache_timestamp, use_router_data, router_manager,
                   now, windowed>>

CallResolveHostname ==
    /\ last.op = "idle"
    /\ \E q \in Queries, include \in BOOLEAN :
       \E env \in Envs(include /\ use_router_data /\ Stale, TRUE, FALSE, FALSE, FALSE) :
         \E out \in {ResolveHostnameToIp(cached_devices, cache_timestamp, now, q, include, env)} :
             /\ cached_devices' = out.cache
             /\ cache_timestamp' = out.ts
             /\ last' = Call("resolve_hostname_to_ip", <<q>>, include, FALSE, env, out,
                             IF out.raised = "none" THEN <<out.res>> ELSE <<>>)
             /\ windowed' = IF include /\ use_router_data
                            THEN now - out.ts <= cache_ttl ELSE windowed
    /\ UNCHANGED <<use_router_data, router_manager, now>>

CallResolveIp ==
    /\ last.op = "idle"
    /\ \E q \in Queries, include \in BOOLEAN :
       \E env \in Envs(include /\ use_router_data /\ Stale /\ IsValidIP(Strip(q)),
                       FALSE, IsValidIP(Strip(q)), IsPrivateIP(Strip(q)), FALSE) :
         \E out \in {ResolveIpToHostname(cached_devices, cache_timestamp, now, q, include, env)} :
             /\ cached_devices' = out.cache
             /\ cache_timestamp' = out.ts
             /\ last' = Call("resolve_ip_to_hostname", <<q>>, include, FALSE, env, out,
                             IF out.raised = "none" THEN <<out.res>> ELSE <<>>)
             /\ windowed' = IF include /\ use_router_data /\ IsValidIP(Strip(q))
                            THEN now - out.ts <= cache_ttl ELSE windowed
    /\ UNCHANGED <<use_router_data, router_manager, now>>

CallBulkResolve ==
    /\ last.op = "idle"
    /\ \E qs \in SeqsUpTo(BulkQueries, MaxBulk), auto \in BOOLEAN :
       \E env \in {e \in BulkEnvs : (use_router_data /\ Stale) \/ e.backend = EnvDefault.backend} :
         \E out \in {BulkResolve(cached_devices, cache_timestamp, now, qs, auto, env)} :
             /\ cached_devices' = out.cache
             /\ cache_timestamp' = out.ts
             /\ last' = [Call("bulk_resolve", qs, TRUE, auto, env, out, out.results)
                         EXCEPT !.op = "bulk_resolve"] @@ [calls |-> out.calls]
             /\ windowed' = IF use_router_data /\ qs # <<>>
                            THEN now - out.ts <= cache_ttl ELSE windowed
    /\ UNCHANGED <<use_router_data, router_manager, now>>

CallGetNetworkInfo ==
    /\ last.op = "idle"
    /\ \E q \in Queries :
       \E env \in Envs(use_router_data /\ Stale, ~IsValidIP(q), IsValidIP(q),
                       IsValidIP(q) /\ IsPrivateIP(q), TRUE) :
         \E out \in {GetNetworkInfo(cached_devices, cache_timestamp, now, q, env)} :
             /\ cached_devices' = out.cache
             /\ cache_timestamp' = out.ts
             /\ last' = Call("get_network_info", <<q>>, TRUE, FALSE, env, out,
                             IF out.raised = "none" THEN <<out.res>> ELSE <<>>)
             /\ windowed' = IF use_router_data
                            THEN now - out.ts <= cache_ttl ELSE windowed
    /\ UNCHANGED <<use_router_data, router_manager, now>>

Next ==
    \/ Tick
    \/ Consume
    \/ CallResolveHostname
    \/ CallResolveIp
    \/ CallBulkResolve
    \/ CallGetNetworkInfo

Spec == Init /\ [][Next]_vars

----------------------------------------------------------------------------
(* What the claims speak of, read off the record of the last call *)

IsResolveHostname == last.op = "resolve_hostname_to_ip"

IsResolveIp == last.op = "resolve_ip_to_hostname"

\* the raw argument of a single-query call, and its normalised forms
RawQuery == last.queries[1]

NormHost == Lower(Strip(RawQuery))

NormIp == Strip(RawQuery)

\* the last call was a resolution call that went to the router data
RouterEnabledResolve ==
    /\ last.op \in {"resolve_hostname_to_ip", "resolve_ip_to_hostname"}
    /\ last.include /\ use_router_data
    /\ (IsResolveIp => IsValidIPCompute(NormIp))

\* the last call invoked the backend, which raised / which returned a batch
RefreshFailed == last.op # "idle" /\ "backend" \in Range(last.ev) /\ last.env.backend.raises

RefreshSucceeded == last.op # "idle" /\ "backend" \in Range(last.ev) /\ ~last.env.backend.raises

NewBatch == last.env.backend.devices

Count(e, ev) == Cardinality({i \in DOMAIN ev : ev[i] = e})

LastIndex(S) == CHOOSE i \in S : \A j \in S : j <= i

\* c is the complete two-way map of the device list: its keys are the
\* lowercased hostnames and the addresses, an address maps to the hostname of
\* the last device with that address, any other key to the address of the last
\* device with that lowercased hostname
CompleteMapOf(c, devices) ==
    LET ips == {devices[i].ip_address : i \in DOMAIN devices}
        hosts == {Lower(devices[i].hostname) : i \in DOMAIN devices}
    IN  /\ DOMAIN c = ips \cup hosts
        /\ \A k \in DOMAIN c :
             IF k \in ips
             THEN c[k] = devices[LastIndex({i \in DOMAIN devices :
                                              devices[i].ip_address = k})].hostname
             ELSE c[k] = devices[LastIndex({i \in DOMAIN devices :
                                              Lower(devices[i].hostname) = k})].ip_address

NonEmptyText(err) == err # None /\ \E i \in DOMAIN err : err[i] # ""

----------------------------------------------------------------------------
(* C1 *)

\* C1: a router-enabled resolution call made inside the time-to-live window in
\* which an earlier router-enabled resolution call completed does not invoke
\* the router backend and leaves the cache and its timestamp as that earlier
\* call left them.
C1_RefreshIdempotentInWindow ==
    (RouterEnabledResolve /\ last.windowed /\ last.t - last.pre.ts <= cache_ttl)
        => /\ "backend" \notin Range(last.ev)
           /\ cached_devices = last.pre.cache
           /\ cache_timestamp = last.pre.ts

C1_Witness ==
    /\ RouterEnabledResolve /\ last.windowed
    /\ last.t - last.pre.ts <= cache_ttl
    /\ last.t > last.pre.ts
    /\ last.pre.cache # EmptyMap
    /\ cached_devices = last.pre.cache

----------------------------------------------------------------------------
(* C2 *)

\* C2 as stated: after a refresh in which the backend returned a batch the
\* cache holds, for each device, lowercased hostname -> ip_address and
\* ip_address -> hostname, nothing else, and the timestamp is the refresh time.
C2_EntryForEachDevice ==
    RefreshSucceeded
        => /\ cache_timestamp = last.t
           /\ \A i \in DOMAIN NewBatch :
                /\ Lower(NewBatch[i].hostname) \in DOMAIN cached_devices
                /\ NewBatch[i].ip_address \in DOMAIN cached_devices
                /\ cached_devices[Lower(NewBatch[i].hostname)] = NewBatch[i].ip_address
                /\ cached_devices[NewBatch[i].ip_address] = NewBatch[i].hostname
           /\ \A k \in DOMAIN cached_devices :
                \E i \in DOMAIN NewBatch :
                    k \in {Lower(NewBatch[i].hostname), NewBatch[i].ip_address}

\* C2 (amended): after a refresh in which the backend returned a batch the
\* cache is the complete two-way map of that batch, where the last device
\* with a key gives its entry and an address key keeps its hostname entry; no
\* entry of an earlier snapshot remains and the timestamp is the refresh time.
\* This holds for every batch, the empty one included.
C2_CacheReplacedByBatch ==
    RefreshSucceeded
        => /\ CompleteMapOf(cached_devices, NewBatch)
           /\ cache_timestamp = last.t

C2_Witness ==
    /\ RefreshSucceeded
    /\ NewBatch # <<>>
    /\ \E k \in DOMAIN last.pre.cache : k \notin DOMAIN cached_devices
    /\ cache_timestamp = last.t /\ last.pre.ts # 0

----------------------------------------------------------------------------
(* C3 *)

\* C3 as stated: when the refresh of a resolution call fails, cache and
\* timestamp are unchanged, the call returns a result, and a hostname or an
\* address that is a key of the stale cache is answered with router_data.
C3_AnyStaleKeyAnswered ==
    (RouterEnabledResolve /\ RefreshFailed)
        => /\ cached_devices = last.pre.cache /\ cache_timestamp = last.pre.ts
           /\ last.raised = "none" /\ Len(last.results) = 1
           /\ (IsResolveHostname /\ ~IsValidIPCompute(NormHost)
                  /\ NormHost \in DOMAIN last.pre.cache)
                => last.results[1].source = "router_data"
           /\ (IsResolveIp /\ NormIp \in DOMAIN last.pre.cache)
                => last.results[1].source = "router_data"

\* C3 (amended): when the refresh of a resolution call fails, cache and
\* timestamp are exactly as before the attempt, the call returns a result, and
\* a hostname the stale cache maps to an address, or an address it maps to a
\* name that is no address, is answered from the stale cache with
\* source router_data.
C3_FailedRefreshServesStaleCache ==
    (RouterEnabledResolve /\ RefreshFailed)
        => /\ cached_devices = last.pre.cache /\ cache_timestamp = last.pre.ts
           /\ last.raised = "none" /\ Len(last.results) = 1
           /\ (IsResolveHostname /\ NormHost \in DOMAIN last.pre.cache
                  /\ IsValidIPCompute(last.pre.cache[NormHost]))
                => /\ last.results[1].success
                   /\ last.results[1].source = "router_data"
                   /\ last.results[1].result = last.pre.cache[NormHost]
           /\ (IsResolveIp /\ NormIp \in DOMAIN last.pre.cache
                  /\ ~IsValidIPCompute(last.pre.cache[NormIp]))
                => /\ last.results[1].success
                   /\ last.results[1].source = "router_data"
                   /\ last.results[1].result = last.pre.cache[NormIp]

C3_Witness ==
    /\ RouterEnabledResolve /\ RefreshFailed
    /\ last.pre.cache # EmptyMap
    /\ last.results[1].source = "router_data"
    /\ cached_devices = last.pre.cache

----------------------------------------------------------------------------
(* C4 *)

\* C4: every cache value a call reads, and the cache the call leaves behind,
\* is either the complete snapshot the call started with or the complete
\* two-way map of the batch the backend returned in this call: never one
\* direction only, never old and new entries mixed.
C4_CacheNeverPartial ==
    last.op # "idle"
        => \A c \in Range(last.reads) \cup {cached_devices} :
              \/ c = last.pre.cache
              \/ RefreshSucceeded /\ CompleteMapOf(c, NewBatch)

C4_Witness ==
    /\ RefreshSucceeded
    /\ last.reads # <<>>
    /\ Len(NewBatch) = 2
    /\ last.pre.cache # EmptyMap
    /\ \A c \in Range(last.reads) : c # last.pre.cache /\ c = cached_devices

----------------------------------------------------------------------------
(* C5 *)

\* C5: a router_data result of resolve_hostname_to_ip is a valid address, a
\* router_data result of resolve_ip_to_hostname is not one; a cache entry of
\* the wrong shape for the query is a miss and the call goes on to the
\* resolver (DNS for a hostname, the reverse lookup for an address).
C5_RouterResultsTypeCorrect ==
    /\ (IsResolveHostname /\ Len(last.results) = 1)
         => /\ last.results[1].source = "router_data"
                 => IsValidIPCompute(last.results[1].result)
            /\ \A c \in Range(last.reads) :
                 (NormHost \in DOMAIN c /\ ~IsValidIPCompute(c[NormHost]))
                     => last.results[1].source = "dns" /\ "dns" \in Range(last.ev)
    /\ (IsResolveIp /\ Len(last.results) = 1)
         => /\ last.results[1].source = "router_data"
                 => ~IsValidIPCompute(last.results[1].result)
            /\ \A c \in Range(last.reads) :
                 (NormIp \in DOMAIN c /\ IsValidIPCompute(c[NormIp]))
                     => /\ last.results[1].source \in {"reverse_dns", "ping_resolution"}
                        /\ "rdns" \in Range(last.ev)

C5_Witness ==
    /\ IsResolveIp /\ Len(last.results) = 1
    /\ \E c \in Range(last.reads) : NormIp \in DOMAIN c /\ IsValidIPCompute(c[NormIp])
    /\ last.results[1].source = "reverse_dns"
    /\ last.results[1].success

----------------------------------------------------------------------------
(* C6 *)

\* C6 as stated: for an argument that is not itself a valid address literal
\* resolve_ip_to_hostname returns success=false with source validation,
\* invokes neither the backend, the reverse lookup nor the ping tool, and
\* leaves cache and timestamp alone.
C6_NonLiteralRejected ==
    (IsResolveIp /\ ~IsValidIPCompute(RawQuery))
        => /\ Len(last.results) = 1
           /\ ~last.results[1].success
           /\ last.results[1].source = "validation"
           /\ last.ev = <<>>
           /\ cached_devices = last.pre.cache /\ cache_timestamp = last.pre.ts

\* C6 (amended): for an argument that, with surrounding whitespace removed,
\* is not a valid address literal, resolve_ip_to_hostname returns
\* success=false with source validation, invokes neither the backend, the
\* reverse lookup nor the ping tool, reads no cache entry, and leaves cache
\* and timestamp alone.
C6_InvalidIpRejectedEarly ==
    (IsResolveIp /\ ~IsValidIPCompute(NormIp))
        => /\ last.raised = "none" /\ Len(last.results) = 1
           /\ ~last.results[1].success
           /\ last.results[1].source = "validation"
           /\ last.ev = <<>> /\ last.reads = <<>>
           /\ cached_devices = last.pre.cache /\ cache_timestamp = last.pre.ts

C6_Witness ==
    /\ IsResolveIp /\ ~IsValidIPCompute(NormIp)
    /\ last.include /\ use_router_data
    /\ last.t - last.pre.ts > cache_ttl
    /\ last.results[1].source = "validation"

----------------------------------------------------------------------------
(* C7 *)

\* C7: when router data is enabled and the cache, after any refresh of the
\* call, maps the lowercased, stripped hostname to a valid address,
\* resolve_hostname_to_ip of any spelling of it returns success with that
\* address and source router_data and does not consult DNS.
C7_HostnameLookupNormalised ==
    (IsResolveHostname /\ last.include /\ use_router_data
        /\ NormHost \in DOMAIN cached_devices
        /\ IsValidIPCompute(cached_devices[NormHost]))
        => /\ Len(last.results) = 1
           /\ last.results[1].success
           /\ last.results[1].result = cached_devices[NormHost]
           /\ last.results[1].source = "router_data"
           /\ "dns" \notin Range(last.ev)

C7_Witness ==
    /\ IsResolveHostname /\ last.include /\ use_router_data
    /\ RawQuery # NormHost /\ RawQuery # Strip(RawQuery) /\ Strip(RawQuery) # NormHost
    /\ NormHost \in DOMAIN cached_devices
    /\ last.results[1].source = "router_data"

----------------------------------------------------------------------------
(* C8 *)

\* C8: resolve_hostname_to_ip, resolve_ip_to_hostname, bulk_resolve and
\* get_network_info never raise: every call returns its result (one record,
\* or a list for bulk_resolve), and every record with success=false carries a
\* non-empty error text.
C8_NeverRaises ==
    last.op # "idle"
        => /\ last.raised = "none"
           /\ (last.op # "bulk_resolve" => Len(last.results) = 1)
           /\ \A i \in DOMAIN last.results :
                ~last.results[i].success => NonEmptyText(last.results[i].error)

C8_Witness ==
    /\ IsResolveHostname
    /\ GetHostByName(last.env, NormHost).exc = "UnicodeError"
    /\ "dns" \in Range(last.ev)
    /\ last.raised = "none"
    /\ ~last.results[1].success

----------------------------------------------------------------------------
(* C9 *)

\* the reverse lookup of the last resolve_ip_to_hostname call, which the cache
\* did not answer
RdnsOutcome == GetHostByAddr(last.env, NormIp)

IpCacheMiss ==
    /\ IsResolveIp /\ IsValidIPCompute(NormIp) /\ Len(last.results) = 1
    /\ last.results[1].source # "router_data"

\* what C9 says of the result, whichever way the fallback was decided
C9_ResultShape ==
    /\ last.results[1].source = "ping_resolution"
         => /\ last.results[1].success
            /\ Count("ping_a", last.ev) = 1
            /\ last.results[1].result = last.env.pinga.name
            /\ last.results[1].result # NormIp
    /\ ~last.results[1].success
         => /\ last.results[1].source = "reverse_dns"
            /\ Len(last.results[1].error) = 2
            /\ last.results[1].error[2] = RdnsOutcome.msg

\* C9 as stated: when the reverse lookup fails, a private address gets exactly
\* one ping fallback and a public one none; ping_resolution is reported only
\* for a name different from the address; when all fails the result is
\* success=false, source reverse_dns, with the reverse-lookup error.
C9_PingFallbackOnAnyFailure ==
    (IpCacheMiss /\ RdnsOutcome.exc # "none")
        => /\ Count("ping_a", last.ev) = (IF IsPrivateIPCompute(NormIp) THEN 1 ELSE 0)
           /\ C9_ResultShape

\* C9 (amended): when the reverse lookup fails with socket.herror, a private
\* address gets exactly one ping fallback and a public one none; when it fails
\* with any other exception no ping is attempted; ping_resolution is reported
\* only for a name different from the address; when all fails the result is
\* success=false, source reverse_dns, with the reverse-lookup error.
C9_PingFallbackOnHerror ==
    (IpCacheMiss /\ RdnsOutcome.exc # "none")
        => /\ Count("ping_a", last.ev) =
                (IF RdnsOutcome.exc = "herror" /\ IsPrivateIPCompute(NormIp) THEN 1 ELSE 0)
           /\ C9_ResultShape

C9_Witness ==
    /\ IpCacheMiss /\ RdnsOutcome.exc = "herror"
    /\ IsPrivateIPCompute(NormIp)
    /\ Count("ping_a", last.ev) = 1
    /\ last.results[1].source = "ping_resolution"

----------------------------------------------------------------------------
(* C10 *)

\* the records the two resolution methods return for query q from the agent
\* state the call started in or the one it ended in
ResolutionsOf(q) ==
    UNION { { ResolveHostnameToIp(st.cache, st.ts, last.t, q, TRUE, last.env).res,
              ResolveIpToHostname(st.cache, st.ts, last.t, q, TRUE, last.env).res } :
            st \in {last.pre, [cache |-> cached_devices, ts |-> cache_timestamp]} }

\* C10: bulk_resolve returns one result per query, the i-th result being the
\* resolution of the i-th query, repeated queries each getting their own
\* result, whichever of them succeed.
C10_BulkOneResultPerQuery ==
    last.op = "bulk_resolve"
        => /\ Len(last.results) = Len(last.queries)
           /\ \A i \in DOMAIN last.queries :
                /\ last.results[i].query \in {Strip(last.queries[i]),
                                              Lower(Strip(last.queries[i]))}
                /\ last.results[i] \in ResolutionsOf(last.queries[i])

C10_Witness ==
    /\ last.op = "bulk_resolve"
    /\ Len(last.queries) = 2 /\ Len(last.results) = 2
    /\ \/ last.queries[1] = last.queries[2]
       \/ last.results[1].success # last.results[2].success

----------------------------------------------------------------------------
(* C11 *)

\* the agent states a query of the last call can have been resolved from
CallStates == {last.pre, [cache |-> cached_devices, ts |-> cache_timestamp]}

\* C11: bulk_resolve with auto_detect_type resolves each query that is a
\* valid address literal by resolve_ip_to_hostname and every other query by
\* resolve_hostname_to_ip; without auto_detect_type every query is resolved by
\* resolve_hostname_to_ip, so no result has source validation, reverse_dns or
\* ping_resolution.
C11_BulkDispatch ==
    last.op = "bulk_resolve"
        => /\ Len(last.calls) = Len(last.queries)
           /\ Len(last.results) = Len(last.queries)
           /\ \A i \in DOMAIN last.queries :
                IF last.auto /\ IsValidIPCompute(last.queries[i])
                THEN /\ last.calls[i] = "resolve_ip_to_hostname"
                     /\ \E st \in CallStates :
                          last.results[i] =
                            ResolveIpToHostname(st.cache, st.ts, last.t, last.queries[i],
                                                TRUE, last.env).res
                ELSE /\ last.calls[i] = "resolve_hostname_to_ip"
                     /\ \E st \in CallStates :
                          last.results[i] =
                            ResolveHostnameToIp(st.cache, st.ts, last.t, last.queries[i],
                                                TRUE, last.env).res
           /\ ~last.auto
                => \A i \in DOMAIN last.results :
                     last.results[i].source \notin {"validation", "reverse_dns", "ping_resolution"}

C11_Witness ==
    /\ last.op = "bulk_resolve" /\ ~last.auto
    /\ \E i \in DOMAIN last.queries :
         /\ IsValidIPCompute(last.queries[i])
         /\ last.calls[i] = "resolve_hostname_to_ip"
         /\ last.results[i].source = "dns"

----------------------------------------------------------------------------
(* C12 *)

IsNetworkInfo == last.op = "get_network_info"

\* the resolution of the target in the other direction, as get_network_info
\* makes it at the start of the call
InfoResolution ==
    IF IsValidIPCompute(RawQuery)
    THEN ResolveIpToHostname(last.pre.cache, last.pre.ts, last.t, RawQuery, TRUE, last.env).res
    ELSE ResolveHostnameToIp(last.pre.cache, last.pre.ts, last.t, RawQuery, TRUE, last.env).res

\* the reachability probe ran and raised something _ping_host does not catch
ProbeRaised == "ping" \in Range(last.ev) /\ last.env.ping = "oserror"

----------------------------------------------------------------------------
(* The router query layer (openwrt_query.py) *)

MaxLeaseLines == 2

MaxMerge == 2

\* str.split() without a separator: the words between runs of whitespace
RECURSIVE SplitWsFrom(_, _, _)
SplitWsFrom(s, i, cur) ==
    IF i > Len(s) THEN (IF cur = <<>> THEN <<>> ELSE <<cur>>)
    ELSE IF s[i] \in Whitespace
    THEN (IF cur = <<>> THEN <<>> ELSE <<cur>>) \o SplitWsFrom(s, i + 1, <<>>)
    ELSE SplitWsFrom(s, i + 1, Append(cur, s[i]))

SplitWs(s) == SplitWsFrom(s, 1, <<>>)

\* "\n".join(lines)
RECURSIVE JoinLines(_)
JoinLines(lines) ==
    IF lines = <<>> THEN <<>>
    ELSE IF Len(lines) = 1 THEN lines[1]
    ELSE lines[1] \o <<"\n">> \o JoinLines(Tail(lines))

S_star == <<"*">>

S_device == <<"d", "e", "v", "i", "c", "e", "-">>

LEASE_0 == <<"0">>

MAC_c == <<"a", "a", ":", "0", "3">>

IP_19 == <<"1", "0", ".", "0", ".", "1", ".", "9">>

LeaseLine(fields) ==
    IF fields = <<>> THEN <<>>
    ELSE IF Len(fields) = 1 THEN fields[1]
    ELSE fields[1] \o <<" ">> \o fields[2] \o
         (IF Len(fields) >= 3 THEN <<" ", "\t">> \o fields[3] ELSE <<>>) \o
         (IF Len(fields) >= 4 THEN <<" ">> \o fields[4] ELSE <<>>) \o
         (IF Len(fields) >= 5 THEN <<" ">> \o fields[5] ELSE <<>>)

\* Lines /tmp/dhcp.leases can hold: a named lease, a lease without a name, a
\* second lease of an address already leased, a line of three fields, a line
\* of blanks, and a lease with a fifth field (the client id)
LeaseLines ==
    { LeaseLine(<<LEASE_t, MAC_a, IP_5, S_Pi>>),
      LeaseLine(<<LEASE_0, MAC_b, IP_19, S_star>>),
      LeaseLine(<<LEASE_t, MAC_c, IP_5, S_nas>>),
      LeaseLine(<<LEASE_t, MAC_b, IP_9>>),
      <<" ", " ">>,
      LeaseLine(<<LEASE_t, MAC_b, IP_9, S_star, MAC_b>>) }

LeaseTexts == {JoinLines(ls) : ls \in SeqsUpTo(LeaseLines, MaxLeaseLines)}

\* /proc/net/arp: the header alone, or the header and one entry
ArpHeader == <<"I", "P", " ", "H", "W", " ", "F", "l", "a", "g", "s", " ", "H", "W", "a", "d", "d", "r">>

ArpTexts ==
    { ArpHeader,
      ArpHeader \o <<"\n">> \o LeaseLine(<<IP_5, <<"0", "x", "1">>, <<"0", "x", "2">>, MAC_c>>) }

\* The arp_map _parse_dhcp_leases builds from the ARP table; the lease loop
\* never reads it
ArpMap(arp_data) ==
    LET lines == Tail(Split(Strip(arp_data), "\n"))
        m[i \in 0..Len(lines)] ==
            IF i = 0 THEN EmptyMap
            ELSE LET parts == SplitWs(lines[i])
                 IN  IF Len(parts) >= 4 THEN DictPut(m[i - 1], parts[1], parts[4])
                     ELSE m[i - 1]
    IN  m[Len(lines)]

\* Variant: the hostname field is copied as it is, '*' included
LeaseDeviceVerbatim(parts) ==
    [ip_address |-> parts[3], hostname |-> parts[4], mac_address |-> parts[2],
     lease_time |-> parts[1], interface |-> None]

\* The record _parse_dhcp_leases makes of the fields of one lease line
LeaseDevice(parts) ==
    [ip_address |-> parts[3],
     hostname |-> IF parts[4] # S_star THEN parts[4]
                  ELSE LET octets == Split(parts[3], ".")
                       IN  S_device \o octets[Len(octets)],
     mac_address |-> parts[2],
     lease_time |-> parts[1],
     interface |-> None]

\* OpenWRTQuerySSH._parse_dhcp_leases
ParseDhcpLeases(leases_data, arp_data) ==
    LET lines == Split(Strip(leases_data), "\n")
        devices[i \in 0..Len(lines)] ==
            IF i = 0 THEN <<>>
            ELSE IF Strip(lines[i]) # <<>> /\ Len(SplitWs(lines[i])) >= 4
            THEN Append(devices[i - 1], LeaseDevice(SplitWs(lines[i])))
            ELSE devices[i - 1]
    IN  devices[Len(lines)]

\* What the host and the router offer the SSH backend: paramiko missing, the
\* connection failing, or the two files read
SshEnvs ==
    {[paramiko |-> FALSE, connect |-> FALSE, leases |-> <<>>, arp |-> ArpHeader],
     [paramiko |-> TRUE, connect |-> FALSE, leases |-> <<>>, arp |-> ArpHeader]}
        \cup [paramiko : {TRUE}, connect : {TRUE}, leases : LeaseTexts, arp : ArpTexts]

\* Variant: a failed connection is tried a second time before giving up
QueryDhcpLeasesRetrying(ssh) ==
    IF ~ssh.paramiko
    THEN [raised |-> "ImportError", devices |-> <<>>, ev |-> <<"ssh_query">>]
    ELSE IF ~ssh.connect
    THEN [raised |-> "SSHException", devices |-> <<>>,
          ev |-> <<"ssh_query", "ssh_connect", "ssh_connect", "ssh_close">>]
    ELSE [raised |-> "none", devices |-> ParseDhcpLeases(ssh.leases, ssh.arp),
          ev |-> <<"ssh_query", "ssh_connect", "ssh_exec", "ssh_exec", "ssh_close">>]

\* OpenWRTQuerySSH.query_dhcp_leases
QueryDhcpLeases(ssh) ==
    IF ~ssh.paramiko
    THEN [raised |-> "ImportError", devices |-> <<>>, ev |-> <<"ssh_query">>]
    ELSE IF ~ssh.connect
    THEN [raised |-> "SSHException", devices |-> <<>>,
          ev |-> <<"ssh_query", "ssh_connect", "ssh_close">>]
    ELSE [raised |-> "none", devices |-> ParseDhcpLeases(ssh.leases, ssh.arp),
          ev |-> <<"ssh_query", "ssh_connect", "ssh_exec", "ssh_exec", "ssh_close">>]

\* OpenWRTQueryWeb.query_dhcp_clients: the requests library is required, no
\* request is made and the list returned is empty
QueryDhcpClients(web) ==
    IF ~web.requests
    THEN [raised |-> "ImportError", devices |-> <<>>, ev |-> <<"web_query">>]
    ELSE [raised |-> "none", devices |-> <<>>, ev |-> <<"web_query">>]

\* Variant: a web record replaces the SSH record of the same address
MergeDevicesWebWins(devices, web_devices) ==
    LET web_ips == {web_devices[i].ip_address : i \in DOMAIN web_devices}
    IN  SelectSeq(devices, LAMBDA d : d.ip_address \notin web_ips) \o web_devices

\* The merge loop of get_connected_devices: existing_ips is taken once, from
\* the devices collected before the web backend was asked
MergeDevices(devices, web_devices) ==
    LET existing_ips == {devices[i].ip_address : i \in DOMAIN devices}
    IN  devices \o SelectSeq(web_devices, LAMBDA d : d.ip_address \notin existing_ips)

NoMethod == "None"

\* The part of get_connected_devices after the SSH backend returned sshq
ConnectedDevicesAfterSsh(query_method, sshq, web) ==
    IF query_method \in {"web", "both"}
    THEN Bind(QueryDhcpClients(web), LAMBDA webq :
              IF webq.raised # "none"
              THEN [raised |-> webq.raised, devices |-> None, ev |-> sshq.ev \o webq.ev]
              ELSE [raised |-> "none", devices |-> MergeDevices(sshq.devices, webq.devices),
                    ev |-> sshq.ev \o webq.ev])
    ELSE [raised |-> "none", devices |-> sshq.devices, ev |-> sshq.ev]

\* RouterQueryManager.get_connected_devices(method); devices is None when the
\* call raises
GetConnectedDevices(method, config, ssh, web) ==
    LET query_method == IF method \in {NoMethod, ""} THEN config.method ELSE method
    IN  Bind(IF query_method \in {"ssh", "both"} THEN QueryDhcpLeases(ssh)
             ELSE [raised |-> "none", devices |-> <<>>, ev |-> <<>>],
             LAMBDA sshq :
                IF sshq.raised # "none"
                THEN [raised |-> sshq.raised, devices |-> None, ev |-> sshq.ev]
                ELSE ConnectedDevicesAfterSsh(query_method, sshq, web))

\* The methods a caller passes and the configuration file names
Methods == {NoMethod, "ssh", "web", "both"}

ConfigMethods == {"ssh", "both"}

WebEnvs == [requests : BOOLEAN]

\* Device lists the merge loop is run on
MergeInputs ==
    SeqsUpTo({RouterDevice(IP_5, S_Pi, MAC_a), RouterDevice(IP_9, S_nas, MAC_b),
              RouterDevice(IP_5, S_nas, MAC_c)}, MaxMerge)

\* In the query-layer specification the idle record remembers whether a
\* refresh of the agent has failed before
QIdle(after_failure) == [op |-> "idle", after_failure |-> after_failure]

QInit ==
    /\ LET a == AgentInit(TRUE, TRUE, FALSE)
       IN  /\ use_router_data = a.use_router_data
           /\ router_manager = a.router_manager
           /\ cached_devices = a.cached_devices
           /\ cache_timestamp = a.cache_timestamp
    /\ now = StartTime
    /\ last = QIdle(FALSE)
    /\ windowed = FALSE

\* a client calls the query manager directly
QCallGetConnectedDevices ==
    /\ last.op = "idle"
    /\ \E method \in Methods, cm \in ConfigMethods, ssh \in SshEnvs, web \in WebEnvs :
       \E out \in {GetConnectedDevices(method, [method |-> cm], ssh, web)} :
         last' = [op |-> "get_connected_devices", method |-> method, config |-> [method |-> cm],
                  ssh |-> IF "ssh_query" \in Range(out.ev) THEN ssh ELSE "unused",
                  web |-> IF "web_query" \in Range(out.ev) THEN web ELSE "unused",
                  raised |-> out.raised, devices |-> out.devices, ev |-> out.ev,
                  after_failure |-> last.after_failure]
    /\ UNCHANGED <<cached_devices, cache_timestamp, use_router_data, router_manager,
                   now, windowed>>

\* the merge loop on its own, for any two device lists
QCallMergeDevices ==
    /\ last.op = "idle"
    /\ \E devices \in MergeInputs, web_devices \in MergeInputs :
         last' = [op |-> "merge_devices", devices |-> devices, web_devices |-> web_devices,
                  merged |-> MergeDevices(devices, web_devices),
                  after_failure |-> last.after_failure]
    /\ UNCHANGED <<cached_devices, cache_timestamp, use_router_data, router_manager,
                   now, windowed>>

\* The environments the agent's manager runs in
AgentSshEnvs ==
    {ssh \in SshEnvs : ssh.arp = ArpHeader /\
        ssh.leases \in {<<>>, LeaseLine(<<LEASE_t, MAC_a, IP_5, S_Pi>>)}}

\* the agent resolves a hostname, its refresh calling get_connected_devices()
QCallResolveHostname ==
    /\ last.op = "idle"
    /\ \E q \in {S_pi, S_nas}, cm \in ConfigMethods, ssh \in AgentSshEnvs, web \in WebEnvs,
          dns \in DnsModes :
       \E m \in {GetConnectedDevices(NoMethod, [method |-> cm], ssh, web)} :
       \E env \in {[EnvDefault EXCEPT !.dns = dns,
                       !.backend = [raises |-> m.raised # "none",
                                    devices |-> IF m.raised # "none" THEN <<>>
                                                ELSE m.devices]]} :
       \E out \in {ResolveHostnameToIp(cached_devices, cache_timestamp, now, q, TRUE, env)} :
         /\ cached_devices' = out.cache
         /\ cache_timestamp' = out.ts
         /\ last' = Call("resolve_hostname_to_ip", <<q>>, TRUE, FALSE, env, out,
                         IF out.raised = "none" THEN <<out.res>> ELSE <<>>)
                    @@ [manager |-> IF "backend" \in Range(out.ev) THEN m ELSE "unused",
                        after_failure |-> last.after_failure]
         /\ windowed' = (now - out.ts <= cache_ttl)
    /\ UNCHANGED <<use_router_data, router_manager, now>>

\* the caller has read the result of the call
QConsume ==
    /\ last.op # "idle"
    /\ last' = QIdle(last.after_failure
                       \/ (last.op = "resolve_hostname_to_ip"
                             /\ "backend" \in Range(last.ev) /\ last.env.backend.raises))
    /\ UNCHANGED <<cached_devices, cache_timestamp, use_router_data, router_manager,
                   now, windowed>>

\* RouterConfig.default_config
DefaultConfig ==
    [router_ip |-> "192.168.1.1", router_user |-> "root", router_password |-> "",
     ssh_port |-> 22, web_port |-> 80, use_https |-> FALSE, timeout |-> 30, method |-> "ssh"]

\* What config/router_config.json can be when load_config runs: absent;
\* holding a JSON object (written here as the mapping json.load returns: all
\* keys, some keys, no key, a key that is no default); holding JSON that is no
\* object; holding text that is no JSON; or present and not readable
ConfigFiles ==
    LET custom == [router_ip |-> "10.0.0.1", router_user |-> "admin", router_password |-> "pw",
                   ssh_port |-> 2222, web_port |-> 8080, use_https |-> TRUE, timeout |-> 5,
                   method |-> "both", label |-> "attic"]
        keySets == {{}, {"router_ip"}, {"ssh_port", "use_https"}, {"method", "label"},
                    DOMAIN DefaultConfig, DOMAIN custom, DOMAIN DefaultConfig \ {"timeout"}}
    IN  {[kind |-> "object", content |-> [k \in K |-> custom[k]]] : K \in keySets}
            \cup {[kind |-> "object", content |-> DefaultConfig]}
            \cup {[kind |-> k] : k \in {"absent", "array", "not_json", "unreadable"}}

\* Variant: the defaults replace the values of the file
LoadConfigDefaultsWin(file, write_ok) ==
    IF file.kind = "object"
    THEN [config |-> DictUpdate(file.content, DefaultConfig), file |-> file, wrote |-> FALSE]
    ELSE [config |-> DefaultConfig,
          file |-> IF write_ok THEN [kind |-> "object", content |-> DefaultConfig] ELSE file,
          wrote |-> write_ok]

\* RouterConfig.load_config on the file, with save_config (78-84) able to
\* open the file for writing or not. The result holds the mapping returned
\* and the file as the call leaves it.
LoadConfig(file, write_ok) ==
    LET \* save_config(config): an exception of open or json.dump is logged
        save_config(config) ==
            IF write_ok THEN [kind |-> "object", content |-> config] ELSE file
    IN  IF file.kind = "object"
        \* exists, json.load returns a dict: the defaults fill the missing keys
        THEN [config |-> DictUpdate(DefaultConfig, file.content), file |-> file, wrote |-> FALSE]
        \* no file, or open, json.load or the merge raised and was logged
        ELSE [config |-> DefaultConfig, file |-> save_config(DefaultConfig), wrote |-> write_ok]

QCallLoadConfig ==
    /\ last.op = "idle"
    /\ \E file \in ConfigFiles, write_ok \in BOOLEAN :
       \E out \in {LoadConfig(file, write_ok)} :
           last' = [op |-> "load_config", after_failure |-> last.after_failure,
                    file |-> file, write_ok |-> write_ok, config |-> out.config,
                    file_after |-> out.file, wrote |-> out.wrote]
    /\ UNCHANGED <<cached_devices, cache_timestamp, use_router_data, router_manager,
                   now, windowed>>

QNext ==
    \/ QCallLoadConfig
    \/ QCallGetConnectedDevices
    \/ QCallMergeDevices
    \/ QCallResolveHostname
    \/ QConsume

QuerySpec == QInit /\ [][QNext]_vars

----------------------------------------------------------------------------
(* C13 *)

IsManagerCall == last.op = "get_connected_devices"

\* the method the last manager call used
QueryMethod == IF last.method \in {NoMethod, ""} THEN last.config.method ELSE last.method

\* out is the first list, unchanged and in order, followed by the records of
\* the second list whose address no record of the first list has
FirstWriterWins(out, first, second) ==
    /\ Len(out) >= Len(first)
    /\ SubSeq(out, 1, Len(first)) = first
    /\ SubSeq(out, Len(first) + 1, Len(out))
         = SelectSeq(second, LAMBDA d : \A i \in DOMAIN first :
                                           first[i].ip_address # d.ip_address)

\* C13: the merge of get_connected_devices gives the SSH backend's devices,
\* unchanged and in their order, followed by those web-backend devices whose
\* ip_address no SSH device has; this holds of the merge loop for any two
\* lists and of every call that runs both backends.
C13_MergeFirstWriterWins ==
    /\ last.op = "merge_devices"
         => FirstWriterWins(last.merged, last.devices, last.web_devices)
    /\ (IsManagerCall /\ QueryMethod = "both" /\ last.raised = "none")
         => FirstWriterWins(last.devices,
                            ParseDhcpLeases(last.ssh.leases, last.ssh.arp),
                            QueryDhcpClients(last.web).devices)

C13_Witness ==
    /\ last.op = "merge_devices"
    /\ Len(last.devices) = 1 /\ Len(last.web_devices) = 2
    /\ last.web_devices[1].ip_address = last.devices[1].ip_address
    /\ last.web_devices[1].hostname # last.devices[1].hostname
    /\ last.merged = <<last.devices[1], last.web_devices[2]>>

----------------------------------------------------------------------------
(* C14 *)

\* C14: no two records of the list get_connected_devices returns have the
\* same ip_address, whatever the lease and ARP input and the method.
C14_UniqueIpAddresses ==
    (IsManagerCall /\ last.raised = "none")
        => \A i, j \in DOMAIN last.devices :
             last.devices[i].ip_address = last.devices[j].ip_address => i = j

----------------------------------------------------------------------------
(* C15 *)

\* the last manager call asked the SSH backend, which could not deliver
SshUnavailable ==
    /\ IsManagerCall /\ QueryMethod \in {"ssh", "both"}
    /\ ~(last.ssh.paramiko /\ last.ssh.connect)

\* the last agent call ran a refresh in which the manager raised
AgentRefreshRaised ==
    /\ last.op = "resolve_hostname_to_ip" /\ "backend" \in Range(last.ev)
    /\ last.manager.raised # "none"

\* what C15 says apart from the number of connection attempts
C15_RaisedAndAbsorbed ==
    /\ SshUnavailable
         => /\ last.raised # "none" /\ last.devices = None
            /\ Count("ssh_query", last.ev) = 1
            /\ "web_query" \notin Range(last.ev)
    /\ AgentRefreshRaised
         => /\ last.raised = "none" /\ Len(last.results) = 1
            /\ cached_devices = last.pre.cache /\ cache_timestamp = last.pre.ts
            /\ use_router_data /\ router_manager
    /\ (last.op = "resolve_hostname_to_ip" /\ last.after_failure)
         => last.raised = "none" /\ Len(last.results) = 1

\* C15 as stated: when the SSH backend is unavailable, paramiko missing
\* included, get_connected_devices makes exactly one connection attempt,
\* raises, returns no list and does not ask the web backend; at the agent the
\* failure ends the refresh only and later queries run.
C15_OneConnectionAttempt ==
    /\ SshUnavailable => Count("ssh_connect", last.ev) = 1
    /\ C15_RaisedAndAbsorbed

\* C15 (amended): when the SSH backend is unavailable, get_connected_devices
\* calls it once, without retry: one connection attempt when the session
\* cannot be established, none when paramiko is missing; it raises, returns
\* no list and does not ask the web backend; at the agent the failure ends
\* the refresh only and later queries run.
C15_NoRetryRaisesToCaller ==
    /\ SshUnavailable
         => Count("ssh_connect", last.ev) = (IF last.ssh.paramiko THEN 1 ELSE 0)
    /\ C15_RaisedAndAbsorbed

C15_Witness ==
    /\ last.op = "resolve_hostname_to_ip" /\ last.after_failure
    /\ "backend" \in Range(last.ev) /\ last.manager.raised = "none"
    /\ last.results[1].source = "router_data"

----------------------------------------------------------------------------
(* C20 *)

\* the last manager call read the lease file and returned what the SSH
\* backend parsed from it
LeasesParsed ==
    IsManagerCall /\ QueryMethod = "ssh" /\ last.raised = "none"

\* the part of an address after its last dot
LastOctet(ip) ==
    LET dots == {i \in DOMAIN ip : ip[i] = "."} \cup {0}
    IN  SubSeq(ip, LastIndex(dots) + 1, Len(ip))

\* the k-th smallest element of a set of numbers
Nth(S, k) == CHOOSE i \in S : Cardinality({j \in S : j <= i}) = k

\* C20: the lease lines with four or more fields give one record each, in
\* line order, with lease_time, mac_address and ip_address the first three
\* fields and hostname the fourth, or device-<last octet of the ip> when the
\* fourth is '*'; blank lines and lines of fewer than four fields give none.
C20_LeaseLinesParsed ==
    LeasesParsed
        => LET lines == Split(Strip(last.ssh.leases), "\n")
               good == {i \in DOMAIN lines : Len(SplitWs(lines[i])) >= 4}
           IN  /\ Len(last.devices) = Cardinality(good)
               /\ \A k \in DOMAIN last.devices :
                    LET f == SplitWs(lines[Nth(good, k)])
                    IN  /\ last.devices[k].lease_time = f[1]
                        /\ last.devices[k].mac_address = f[2]
                        /\ last.devices[k].ip_address = f[3]
                        /\ last.devices[k].hostname =
                             (IF f[4] = S_star THEN S_device \o LastOctet(f[3]) ELSE f[4])

C20_Witness ==
    /\ LeasesParsed
    /\ last.ssh.leases = JoinLines(<<LeaseLine(<<LEASE_t, MAC_b, IP_9>>),
                                     LeaseLine(<<LEASE_0, MAC_b, IP_19, S_star>>)>>)
    /\ last.devices = <<[ip_address |-> IP_19,
                         hostname |-> <<"d", "e", "v", "i", "c", "e", "-", "9">>,
                         mac_address |-> MAC_b, lease_time |-> LEASE_0,
                         interface |-> None]>>

----------------------------------------------------------------------------
(* The web interface module: modules/openwrt_web.py *)

URL_luci == <<"/", "l", "u", "c", "i">>

URL_Login == <<"/", "L", "o", "g", "i", "n">>

\* What a request of the session can give: a response (status_code, final
\* url and text), a requests.RequestException or another exception
HttpResponse(status_code, url, text) ==
    [exc |-> "none", status_code |-> status_code, url |-> url, text |-> text]

RequestException == [exc |-> "RequestException"]

OtherException == [exc |-> "Exception"]

\* 'login' in response.url.lower()
OnLoginPage(response) ==
    LET url == Lower(response.url)
        sub == <<"l", "o", "g", "i", "n">>
    IN  \E i \in 1..(Len(url) - Len(sub) + 1) : SubSeq(url, i, i + Len(sub) - 1) = sub

\* the test _perform_login applies to the response of a login POST
LoginAccepted(response) == response.status_code = 200 /\ ~OnLoginPage(response)

\* The endpoints _perform_login posts the credentials to, in its order
LoginEndpoints == <<"/cgi-bin/luci/", "/cgi-bin/luci/admin/system/admin", "/login">>

\* Variant: a failed request is passed over like a rejected response
PerformLoginPastFailedRequest(posts) ==
    LET RECURSIVE Go(_, _)
        Go(k, e) ==
            IF k > Len(LoginEndpoints) THEN [result |-> FALSE, ev |-> e]
            ELSE IF posts[k] # RequestException /\ LoginAccepted(posts[k])
            THEN [result |-> TRUE, ev |-> Append(e, <<"POST", LoginEndpoints[k]>>)]
            ELSE Go(k + 1, Append(e, <<"POST", LoginEndpoints[k]>>))
    IN  Go(1, <<>>)

\* OpenWRTWebAuth._perform_login; posts[k] is what the k-th POST gives.  One
\* try block holds all the POSTs, so a RequestException ends them.
PerformLogin(posts) ==
    LET RECURSIVE Go(_, _)
        Go(k, e) ==
            IF k > Len(LoginEndpoints) THEN [result |-> FALSE, ev |-> e]
            ELSE IF posts[k] = RequestException
            THEN [result |-> FALSE, ev |-> Append(e, <<"POST", LoginEndpoints[k]>>)]
            ELSE IF LoginAccepted(posts[k])
            THEN [result |-> TRUE, ev |-> Append(e, <<"POST", LoginEndpoints[k]>>)]
            ELSE Go(k + 1, Append(e, <<"POST", LoginEndpoints[k]>>))
    IN  Go(1, <<>>)

\* The environments of an authentication: whether requests is installed,
\* what the GET of the base url gives and what the login POSTs give
AuthEnvs ==
    LET outcomes == {HttpResponse(200, URL_luci, <<>>), HttpResponse(200, URL_Login, <<>>),
                     HttpResponse(401, URL_luci, <<>>), HttpResponse(500, URL_luci, <<>>),
                     RequestException}
    IN  [requests : BOOLEAN, get : outcomes, posts : [1..3 -> outcomes]]

\* OpenWRTWebAuth.authenticate
Authenticate(web) ==
    IF ~web.requests
    THEN [raised |-> "ImportError", result |-> FALSE, authenticated |-> FALSE, ev |-> <<>>]
    ELSE IF web.get = RequestException
    THEN [raised |-> "none", result |-> FALSE, authenticated |-> FALSE,
          ev |-> <<<<"GET", "/">>>>]
    ELSE IF OnLoginPage(web.get) \/ web.get.status_code = 401
    THEN LET login == PerformLogin(web.posts)
         IN  [raised |-> "none", result |-> login.result, authenticated |-> login.result,
              ev |-> <<<<"GET", "/">>>> \o login.ev]
    ELSE [raised |-> "none", result |-> web.get.status_code = 200,
          authenticated |-> web.get.status_code = 200, ev |-> <<<<"GET", "/">>>>]

\* Python values of a raw mapping: Py("str", s), Py("int", n) and, for None,
\* Py("none", <<>>); Py("absent", <<>>) stands for a key the mapping does not
\* have
Py(t, v) == IF t = "int" THEN [t |-> t, n |-> v] ELSE [t |-> t, s |-> v]

\* bool(value)
PyTruthy(val) ==
    CASE val.t = "str" -> val.s # <<>>
      [] val.t = "int" -> val.n # 0
      [] OTHER -> FALSE

\* str(value)
StrOf(val) ==
    LET RECURSIVE IntToStr(_)
        IntToStr(n) == IF n < 10 THEN <<Digits[n + 1]>>
                       ELSE Append(IntToStr(n \div 10), Digits[(n % 10) + 1])
    IN  CASE val.t = "str" -> val.s
          [] val.t = "int" -> IntToStr(val.n)
          [] OTHER -> None

S_Unknown == <<"U", "n", "k", "n", "o", "w", "n">>

\* key_mappings of _extract_device_info, in the order of the dict
KeyMappings ==
    << <<"ip_address", <<"ip", "ipaddr", "ip_address", "address">> >>,
       <<"hostname", <<"hostname", "name", "device_name", "client_name">> >>,
       <<"mac_address", <<"mac", "macaddr", "mac_address", "hwaddr">> >>,
       <<"lease_time", <<"lease", "lease_time", "expires", "expiry">> >> >>

\* Variant: the last candidate with a value wins
ExtractDeviceInfoLastWins(data) ==
    LET Pick(keys) == LET hits == {k \in DOMAIN keys :
                                      keys[k] \in DOMAIN data /\ PyTruthy(data[keys[k]])}
                      IN  IF hits = {} THEN 0 ELSE LastIndex(hits)
        found == {m \in DOMAIN KeyMappings : Pick(KeyMappings[m][2]) # 0}
        Of(f) == CHOOSE m \in DOMAIN KeyMappings : KeyMappings[m][1] = f
    IN  [f \in {KeyMappings[m][1] : m \in found}
                 \cup {"ip_address", "hostname", "mac_address"} |->
            IF Of(f) \in found
            THEN StrOf(data[KeyMappings[Of(f)][2][Pick(KeyMappings[Of(f)][2])]])
            ELSE S_Unknown]

\* OpenWRTWebQuery._extract_device_info: for each canonical field the first
\* key of its list that is in data with a truthy value gives the field; the
\* setdefault calls give "Unknown" to three of the four fields
ExtractDeviceInfo(data) ==
    LET RECURSIVE First(_, _)
        First(keys, k) ==
            IF k > Len(keys) THEN 0
            ELSE IF keys[k] \in DOMAIN data /\ PyTruthy(data[keys[k]]) THEN k
            ELSE First(keys, k + 1)
        Pick(keys) == First(keys, 1)
        found == {m \in DOMAIN KeyMappings : Pick(KeyMappings[m][2]) # 0}
        Of(f) == CHOOSE m \in DOMAIN KeyMappings : KeyMappings[m][1] = f
    IN  [f \in {KeyMappings[m][1] : m \in found}
                 \cup {"ip_address", "hostname", "mac_address"} |->
            IF Of(f) \in found
            THEN StrOf(data[KeyMappings[Of(f)][2][Pick(KeyMappings[Of(f)][2])]])
            ELSE S_Unknown]

MaxItems == 2

\* What json.loads gives for a text that is not JSON
Invalid == [type |-> "invalid"]

\* An element of a parsed JSON array that is a dict (a raw mapping); any
\* other element is [dict |-> FALSE]
JsonDict(data) == [dict |-> TRUE, data |-> data]

\* Parsed JSON documents: an array of elements, or an object whose values are
\* arrays of elements ([list |-> TRUE, items |-> ...]) or not ([list |-> FALSE])
JsonList(items) == [type |-> "list", items |-> items]

JsonObject(entries) == [type |-> "dict", entries |-> entries]

\* the loops that turn the dicts of an array into devices; the loop over a
\* top-level array asks for the key 'ip' as well
RECURSIVE ExtractEach(_, _)
ExtractEach(items, need_ip) ==
    IF items = <<>> THEN <<>>
    ELSE (IF Head(items).dict /\ (need_ip => "ip" \in DOMAIN Head(items).data)
          THEN <<ExtractDeviceInfo(Head(items).data)>> ELSE <<>>)
         \o ExtractEach(Tail(items), need_ip)

\* OpenWRTWebQuery._parse_json_response
ParseJsonResponse(json) ==
    LET keys == <<"clients", "devices", "dhcp_clients", "leases">>
        RECURSIVE FromKey(_)
        FromKey(k) ==
            IF k > Len(keys) THEN <<>>
            ELSE (IF keys[k] \in DOMAIN json.entries /\ json.entries[keys[k]].list
                  THEN ExtractEach(json.entries[keys[k]].items, FALSE) ELSE <<>>)
                 \o FromKey(k + 1)
    IN  IF json.type = "list" THEN ExtractEach(json.items, TRUE) ELSE FromKey(1)

\* What a match of the HTML patterns holds: the three groups of a table row
\* or lease line, or an embedded array with what json.loads makes of it
HtmlRow(ip, mac, host) == [kind |-> "row", ip |-> ip, mac |-> mac, host |-> host]

HtmlArray(json) == [kind |-> "array", json |-> json]

\* OpenWRTWebQuery._parse_html_response on the matches of its patterns, in
\* the order its loops visit them; a match whose array does not load is
\* passed over
RECURSIVE ParseHtmlResponse(_)
ParseHtmlResponse(matches) ==
    IF matches = <<>> THEN <<>>
    ELSE (IF Head(matches).kind = "array"
          THEN (IF Head(matches).json = Invalid THEN <<>>
                ELSE ExtractEach(Head(matches).json.items, FALSE))
          ELSE <<[ip_address |-> Head(matches).ip, mac_address |-> Head(matches).mac,
                  hostname |-> Head(matches).host]>>)
         \o ParseHtmlResponse(Tail(matches))

\* A response body: the first character of the stripped text, what
\* json.loads makes of the text and the matches of the HTML patterns in it
Body(first, json, matches) == [first |-> first, json |-> json, matches |-> matches]

\* Variant: the error of json.loads leaves _parse_response
ParseResponseUncaught(content) ==
    IF content.first \in {"{", "["}
    THEN (IF content.json = Invalid
          THEN [raised |-> "JSONDecodeError", devices |-> <<>>]
          ELSE [raised |-> "none", devices |-> ParseJsonResponse(content.json)])
    ELSE [raised |-> "none", devices |-> ParseHtmlResponse(content.matches)]

\* OpenWRTWebQuery._parse_response
ParseResponse(content) ==
    IF content.first \in {"{", "["}
    THEN (IF content.json = Invalid
          THEN [raised |-> "none", devices |-> <<>>]
          ELSE [raised |-> "none", devices |-> ParseJsonResponse(content.json)])
    ELSE [raised |-> "none", devices |-> ParseHtmlResponse(content.matches)]

\* OpenWRTWebQuery._query_endpoint
QueryEndpoint(outcome) ==
    IF outcome = RequestException THEN [raised |-> "none", devices |-> <<>>]
    ELSE IF outcome = OtherException THEN [raised |-> "Exception", devices |-> <<>>]
    ELSE IF outcome.status_code = 200 THEN ParseResponse(outcome.text)
    ELSE [raised |-> "none", devices |-> <<>>]

\* The endpoints get_dhcp_clients probes, in its order
DhcpEndpoints ==
    <<"/cgi-bin/luci/admin/status/overview", "/cgi-bin/luci/admin/network/dhcp",
      "/cgi-bin/luci/admin/status/processes", "/status/dhcp_clients", "/api/dhcp/clients">>

\* Variant: every endpoint is probed and the last one with devices wins
ProbeEndpointsAll(endpoints) ==
    LET RECURSIVE Go(_, _, _)
        Go(i, devices, ev) ==
            IF i > Len(DhcpEndpoints) THEN [devices |-> devices, ev |-> ev]
            ELSE LET r == QueryEndpoint(endpoints[i])
                 IN  Go(i + 1, IF r.raised = "none" /\ r.devices # <<>>
                               THEN r.devices ELSE devices,
                        Append(ev, <<"GET", DhcpEndpoints[i]>>))
    IN  Go(1, <<>>, <<>>)

\* the endpoint loop of get_dhcp_clients
ProbeEndpoints(endpoints) ==
    LET RECURSIVE Go(_, _, _)
        Go(i, devices, ev) ==
            IF i > Len(DhcpEndpoints) THEN [devices |-> devices, ev |-> ev]
            ELSE LET r == QueryEndpoint(endpoints[i])
                     e == Append(ev, <<"GET", DhcpEndpoints[i]>>)
                 IN  IF r.raised # "none" THEN Go(i + 1, devices, e)
                     ELSE IF r.devices # <<>> THEN [devices |-> r.devices, ev |-> e]
                     ELSE Go(i + 1, r.devices, e)
    IN  Go(1, <<>>, <<>>)

\* OpenWRTWebQuery.get_dhcp_clients
GetDhcpClients(web) ==
    LET a == Authenticate(web.auth)
    IN  IF a.raised # "none"
        THEN [raised |-> a.raised, devices |-> None, ev |-> a.ev]
        ELSE IF ~a.result
        THEN [raised |-> "ConnectionError", devices |-> None, ev |-> a.ev]
        ELSE LET p == ProbeEndpoints(web.endpoints)
             IN  [raised |-> "none", devices |-> p.devices, ev |-> a.ev \o p.ev]

----------------------------------------------------------------------------
(* The calls of the web interface module *)

\* Raw mappings _extract_device_info is applied to
RawMappings ==
    LET choices ==
          [ip : {Py("absent", <<>>), Py("str", <<>>), Py("str", IP_5)},
           ipaddr : {Py("absent", <<>>), Py("str", IP_9)},
           hostname : {Py("absent", <<>>), Py("str", <<>>), Py("str", S_Pi)},
           name : {Py("absent", <<>>), Py("str", S_nas)},
           mac : {Py("absent", <<>>), Py("none", <<>>), Py("str", MAC_a)},
           lease : {Py("absent", <<>>), Py("int", 0), Py("int", 3600)},
           expires : {Py("absent", <<>>), Py("str", LEASE_t)}]
    IN  {[k \in {x \in DOMAIN c : c[x].t # "absent"} |-> c[k]] : c \in choices}

\* Response bodies _parse_response is applied to
Bodies ==
    LET items_pool == {JsonDict([ip |-> Py("str", IP_5), hostname |-> Py("str", S_Pi),
                                 mac |-> Py("str", MAC_a)]),
                       JsonDict([ipaddr |-> Py("str", IP_9), name |-> Py("str", S_nas)]),
                       [dict |-> FALSE]}
        arrays == SeqsUpTo(items_pool, MaxItems)
        matches == {HtmlRow(IP_5, MAC_a, S_Pi),
                    HtmlArray(JsonList(<<JsonDict([ipaddr |-> Py("str", IP_9),
                                                   name |-> Py("str", S_nas)])>>)),
                    HtmlArray(Invalid)}
    IN  {Body("[", JsonList(items), <<>>) : items \in arrays}
          \cup {Body("{", JsonObject(k :> [list |-> TRUE, items |-> items]), <<>>) :
                  k \in {"clients", "leases", "other"}, items \in arrays}
          \cup {Body("{", JsonObject("devices" :> [list |-> FALSE]), <<>>)}
          \cup {Body(c, Invalid, <<>>) : c \in {"{", "["}}
          \cup {Body("<", Invalid, ms) : ms \in SeqsUpTo(matches, MaxItems)}

\* What the GET of an endpoint can give
EndpointOutcomes ==
    {RequestException, OtherException,
     HttpResponse(500, URL_luci, Body("<", Invalid, <<HtmlRow(IP_5, MAC_a, S_Pi)>>)),
     HttpResponse(200, URL_luci, Body("{", Invalid, <<>>)),
     HttpResponse(200, URL_luci, Body("<", Invalid, <<HtmlArray(Invalid)>>)),
     HttpResponse(200, URL_luci,
                  Body("[", JsonList(<<JsonDict([ip |-> Py("str", IP_5)])>>), <<>>)),
     HttpResponse(200, URL_luci, Body("<", Invalid, <<HtmlRow(IP_9, MAC_b, S_nas)>>))}

\* OpenWRTWebAuth.authenticate is called
WCallAuthenticate ==
    /\ last.op = "idle"
    /\ \E web \in AuthEnvs :
       \E out \in {Authenticate(web)} :
         last' = [op |-> "authenticate", web |-> web, raised |-> out.raised,
                  result |-> out.result, authenticated |-> out.authenticated,
                  ev |-> out.ev]
    /\ UNCHANGED <<cached_devices, cache_timestamp, use_router_data, router_manager,
                   now, windowed>>

\* OpenWRTWebQuery.get_dhcp_clients is called
WCallGetDhcpClients ==
    /\ last.op = "idle"
    /\ \E auth \in {a \in AuthEnvs :
            /\ a.posts[1] = HttpResponse(200, URL_Login, <<>>)
            /\ a.posts[2] \in {HttpResponse(200, URL_luci, <<>>),
                               HttpResponse(401, URL_luci, <<>>)}
            /\ a.posts[3] = RequestException
            /\ a.get \in {HttpResponse(200, URL_luci, <<>>), HttpResponse(200, URL_Login, <<>>),
                          HttpResponse(500, URL_luci, <<>>)}
            /\ (a.posts[2].status_code = 401 => a.requests /\ OnLoginPage(a.get))
            /\ (~a.requests => a.get = HttpResponse(200, URL_luci, <<>>))},
          endpoints \in [DOMAIN DhcpEndpoints -> EndpointOutcomes] :
       \E out \in {GetDhcpClients([auth |-> auth, endpoints |-> endpoints])} :
         last' = [op |-> "get_dhcp_clients",
                  web |-> [auth |-> auth, endpoints |-> endpoints],
                  raised |-> out.raised, devices |-> out.devices, ev |-> out.ev]
    /\ UNCHANGED <<cached_devices, cache_timestamp, use_router_data, router_manager,
                   now, windowed>>

\* OpenWRTWebQuery._parse_response is applied to a body
WCallParseResponse ==
    /\ last.op = "idle"
    /\ \E content \in Bodies :
       \E out \in {ParseResponse(content)} :
         last' = [op |-> "parse_response", content |-> content,
                  raised |-> out.raised, devices |-> out.devices]
    /\ UNCHANGED <<cached_devices, cache_timestamp, use_router_data, router_manager,
                   now, windowed>>

\* OpenWRTWebQuery._extract_device_info is applied to a raw mapping
WCallExtractDeviceInfo ==
    /\ last.op = "idle"
    /\ \E data \in RawMappings :
         last' = [op |-> "extract_device_info", data |-> data,
                  device |-> ExtractDeviceInfo(data)]
    /\ UNCHANGED <<cached_devices, cache_timestamp, use_router_data, router_manager,
                   now, windowed>>

\* the caller has read the result of the call
WConsume ==
    /\ last.op # "idle"
    /\ last' = QIdle(FALSE)
    /\ UNCHANGED <<cached_devices, cache_timestamp, use_router_data, router_manager,
                   now, windowed>>

WNext ==
    \/ WCallExtractDeviceInfo
    \/ WCallParseResponse
    \/ WCallAuthenticate
    \/ WCallGetDhcpClients
    \/ WConsume

\* The web module starts as the query layer does, with nothing called yet
WebSpec == QInit /\ [][WNext]_vars

----------------------------------------------------------------------------
(* C16 *)

\* the last call was an authentication that had to log in
LoginRequired ==
    /\ last.op = "authenticate" /\ last.web.requests
    /\ last.web.get.exc = "none"
    /\ (OnLoginPage(last.web.get) \/ last.web.get.status_code = 401)

\* the endpoints of the login POSTs of the last call, in the order made
LoginPosts ==
    LET posts == SelectSeq(last.ev, LAMBDA e : e[1] = "POST")
    IN  [k \in DOMAIN posts |-> posts[k][2]]

\* the k-th login POST of the last call succeeded / got a rejected response
PostSucceeded(k) ==
    last.web.posts[k].exc = "none" /\ LoginAccepted(last.web.posts[k])

PostRejected(k) ==
    last.web.posts[k].exc = "none" /\ ~LoginAccepted(last.web.posts[k])

\* the POSTs go to the three login endpoints in their order
LoginPostsInOrder ==
    /\ Len(LoginPosts) \in 1..3
    /\ LoginPosts = SubSeq(<<"/cgi-bin/luci/", "/cgi-bin/luci/admin/system/admin",
                             "/login">>, 1, Len(LoginPosts))

\* C16 as stated: a login tries /cgi-bin/luci/, then on any failure of an
\* attempt, a rejected response or a failed request, the next of
\* /cgi-bin/luci/admin/system/admin and /login; it stops at the first success
\* and reports failure only after all three have failed.
C16_FallbackAfterAnyFailure ==
    LoginRequired
        => /\ LoginPostsInOrder
           /\ \A k \in 1..(Len(LoginPosts) - 1) : ~PostSucceeded(k)
           /\ last.result = PostSucceeded(Len(LoginPosts))
           /\ ~last.result => Len(LoginPosts) = 3

\* C16 (amended): a login tries /cgi-bin/luci/, then after a rejected
\* response the next of /cgi-bin/luci/admin/system/admin and /login; it stops
\* at the first success, and also at the first failed request, which ends the
\* login in failure; it makes at most three POSTs.
C16_FallbackAfterRejection ==
    LoginRequired
        => /\ LoginPostsInOrder
           /\ \A k \in 1..(Len(LoginPosts) - 1) : PostRejected(k)
           /\ Len(LoginPosts) < 3 => ~PostRejected(Len(LoginPosts))
           /\ last.result = PostSucceeded(Len(LoginPosts))
           /\ last.authenticated = last.result /\ last.raised = "none"

C16_Witness ==
    /\ LoginRequired
    /\ PostRejected(1) /\ PostSucceeded(2)
    /\ LoginPosts = <<"/cgi-bin/luci/", "/cgi-bin/luci/admin/system/admin">>
    /\ last.result

----------------------------------------------------------------------------
(* C17 *)

\* the last call was a get_dhcp_clients whose authentication succeeded
ProbedAfterLogin == last.op = "get_dhcp_clients" /\ last.raised = "none"

\* the endpoints requested by the last call after authentication, in order
Probes ==
    LET gets == SelectSeq(last.ev, LAMBDA e : e[1] = "GET" /\ e[2] # "/")
    IN  [k \in DOMAIN gets |-> gets[k][2]]

\* the devices parsed from what the k-th endpoint gives: none when the
\* request fails or the status is not 200
Yield(k) ==
    LET o == last.web.endpoints[k]
    IN  IF o.exc = "none" /\ o.status_code = 200 THEN ParseResponse(o.text).devices
        ELSE <<>>

\* C17: after authentication get_dhcp_clients requests the five endpoints in
\* their order up to the first that yields a device; it returns that
\* endpoint's devices and requests no later endpoint; endpoints that fail or
\* yield nothing are passed over, and the result is empty only when all five
\* were requested.
C17_StopsAtFirstYield ==
    ProbedAfterLogin
        => /\ Len(Probes) \in 1..5
           /\ Probes = SubSeq(<<"/cgi-bin/luci/admin/status/overview",
                                "/cgi-bin/luci/admin/network/dhcp",
                                "/cgi-bin/luci/admin/status/processes",
                                "/status/dhcp_clients", "/api/dhcp/clients">>,
                              1, Len(Probes))
           /\ \A k \in 1..(Len(Probes) - 1) : Yield(k) = <<>>
           /\ last.devices = Yield(Len(Probes))
           /\ last.devices = <<>> => Len(Probes) = 5

C17_Witness ==
    /\ ProbedAfterLogin
    /\ Len(Probes) = 3
    /\ last.web.endpoints[1] = RequestException
    /\ last.web.endpoints[2] = HttpResponse(200, URL_luci, Body("{", Invalid, <<>>))
    /\ Yield(4) # <<>> /\ Yield(4) # Yield(3)
    /\ last.devices = <<[ip_address |-> IP_5, hostname |-> S_Unknown,
                         mac_address |-> S_Unknown]>>

----------------------------------------------------------------------------
(* C18 *)

\* the last call was a get_dhcp_clients whose authentication failed
AuthenticationFailed ==
    /\ last.op = "get_dhcp_clients"
    /\ Authenticate(last.web.auth).raised = "none"
    /\ ~Authenticate(last.web.auth).result

\* a body nothing can be parsed from: text shaped like JSON that json.loads
\* rejects, or other text in which no pattern finds a device
Unparseable(content) ==
    IF content.first \in {"{", "["} THEN content.json = Invalid
    ELSE \A i \in DOMAIN content.matches :
           content.matches[i].kind = "array" /\ content.matches[i].json = Invalid

\* C18: a failed authentication makes get_dhcp_clients raise a connection
\* error before any endpoint is requested; _parse_response never raises, it
\* returns a list for every body, the empty list for a body that cannot be
\* parsed.
C18_AuthRaisesParseNeverRaises ==
    /\ AuthenticationFailed
         => /\ last.raised = "ConnectionError" /\ last.devices = None
            /\ Probes = <<>>
    /\ last.op = "parse_response"
         => /\ last.raised = "none"
            /\ DOMAIN last.devices = 1..Len(last.devices)
            /\ Unparseable(last.content) => last.devices = <<>>

C18_Witness ==
    /\ last.op = "parse_response"
    /\ last.content = Body("{", Invalid, <<>>)
    /\ last.raised = "none" /\ last.devices = <<>>

----------------------------------------------------------------------------
(* C19 *)

IsExtract == last.op = "extract_device_info"

\* the candidate keys of a canonical field that the raw mapping of the last
\* call holds with a non-empty value, as positions in the priority list
Candidates(keys) ==
    {k \in DOMAIN keys : keys[k] \in DOMAIN last.data /\ PyTruthy(last.data[keys[k]])}

\* the string value of the first candidate
FirstCandidate(keys) ==
    LET k == CHOOSE i \in Candidates(keys) : \A j \in Candidates(keys) : i <= j
    IN  StrOf(last.data[keys[k]])

\* The priority lists of the four canonical fields
PriorityLists ==
    [ip_address |-> <<"ip", "ipaddr", "ip_address", "address">>,
     hostname |-> <<"hostname", "name", "device_name", "client_name">>,
     mac_address |-> <<"mac", "macaddr", "mac_address", "hwaddr">>,
     lease_time |-> <<"lease", "lease_time", "expires", "expiry">>]

\* C19 as stated: every canonical field is the string of the first key of its
\* priority list present with a non-empty value, and "Unknown" when there is
\* no such key.
C19_EveryFieldSetOrUnknown ==
    IsExtract
        => \A f \in DOMAIN PriorityLists :
             /\ f \in DOMAIN last.device
             /\ last.device[f] = (IF Candidates(PriorityLists[f]) # {}
                                  THEN FirstCandidate(PriorityLists[f]) ELSE S_Unknown)

\* C19 (amended): a canonical field with a candidate is the string of the
\* first key of its priority list present with a non-empty value; without a
\* candidate ip_address, hostname and mac_address are "Unknown" and
\* lease_time is left out of the record.
C19_FirstCandidateWins ==
    IsExtract
        => /\ DOMAIN last.device \subseteq DOMAIN PriorityLists
           /\ \A f \in DOMAIN PriorityLists :
                IF Candidates(PriorityLists[f]) # {}
                THEN f \in DOMAIN last.device
                       /\ last.device[f] = FirstCandidate(PriorityLists[f])
                ELSE IF f = "lease_time" THEN f \notin DOMAIN last.device
                ELSE f \in DOMAIN last.device /\ last.device[f] = S_Unknown

C19_Witness ==
    /\ IsExtract
    /\ DOMAIN last.data = {"ip", "ipaddr", "hostname", "name", "lease", "expires"}
    /\ last.data["ip"] = Py("str", <<>>) /\ last.data["hostname"] = Py("str", S_Pi)
    /\ last.data["lease"] = Py("int", 0)
    /\ last.device = [ip_address |-> IP_9, hostname |-> S_Pi, mac_address |-> S_Unknown,
                      lease_time |-> LEASE_t]

----------------------------------------------------------------------------
(* C24 *)

\* the last call was a resolve call that must leave the router data alone
RouterDisabledResolve ==
    /\ last.op \in {"resolve_hostname_to_ip", "resolve_ip_to_hostname"}
    /\ (~last.include \/ ~use_router_data)

\* C24: a resolve call with include_router_data=false, or on an agent whose
\* use_router_data is false, does not invoke the router backend, leaves
\* cached_devices and cache_timestamp as they were and never answers with
\* source router_data.
C24_RouterDataUntouched ==
    RouterDisabledResolve
        => /\ "backend" \notin Range(last.ev)
           /\ last.reads = <<>>
           /\ cached_devices = last.pre.cache
           /\ cache_timestamp = last.pre.ts
           /\ \A i \in DOMAIN last.results : last.results[i].source # "router_data"

C24_Witness ==
    /\ IsResolveHostname /\ ~last.include /\ use_router_data
    /\ NormHost \in DOMAIN cached_devices /\ IsValidIPCompute(cached_devices[NormHost])
    /\ last.t - cache_timestamp > cache_ttl
    /\ last.results[1].source = "dns"

----------------------------------------------------------------------------
(* C25 *)

\* the results of the last call that resolve_hostname_to_ip made, and those
\* that resolve_ip_to_hostname made
HostnameResults ==
    IF IsResolveHostname THEN Range(last.results)
    ELSE IF last.op = "bulk_resolve"
    THEN {last.results[i] : i \in {j \in DOMAIN last.results :
                                     last.calls[j] = "resolve_hostname_to_ip"}}
    ELSE {}

IpResults ==
    IF IsResolveIp THEN Range(last.results)
    ELSE IF last.op = "bulk_resolve"
    THEN {last.results[i] : i \in {j \in DOMAIN last.results :
                                     last.calls[j] = "resolve_ip_to_hostname"}}
    ELSE {}

\* C25: a result of resolve_hostname_to_ip has source router_data or dns, a
\* result of resolve_ip_to_hostname has source validation, router_data,
\* reverse_dns or ping_resolution, a result of get_network_info has source
\* network_info; a resolve result with success=true has a result and no
\* error, one with success=false has no result, an error and a source among
\* dns, validation and reverse_dns.
C25_ResultRecordInvariants ==
    /\ \A r \in HostnameResults : r.source \in {"router_data", "dns"}
    /\ \A r \in IpResults :
         r.source \in {"validation", "router_data", "reverse_dns", "ping_resolution"}
    /\ IsNetworkInfo => \A r \in Range(last.results) : r.source = "network_info"
    /\ \A r \in HostnameResults \cup IpResults :
         IF r.success THEN r.result # None /\ r.error = None
         ELSE /\ r.result = None /\ r.error # None
              /\ r.source \in {"dns", "validation", "reverse_dns"}

C25_Witness ==
    /\ last.op = "bulk_resolve"
    /\ \E r \in HostnameResults : ~r.success /\ r.source = "dns" /\ r.error # None
    /\ \E r \in IpResults : r.success /\ r.source = "ping_resolution" /\ r.result # None

----------------------------------------------------------------------------
(* C27 *)

\* the target of the last call, as a hostname or as an address, is a key of
\* the cached directory
TargetInCache ==
    Strip(RawQuery) \in DOMAIN cached_devices
        \/ Lower(Strip(RawQuery)) \in DOMAIN cached_devices

\* C27: on an agent with router data enabled the info of get_network_info
\* has the entry found_in_router for every target, and it is true exactly
\* when the target's hostname or address is a device of the cached directory.
C27_FoundInRouterReported ==
    (IsNetworkInfo /\ use_router_data /\ Len(last.results) = 1 /\ last.results[1].success)
        => /\ last.results[1].additional_info.has_found_in_router
           /\ last.results[1].additional_info.found_in_router <=> TargetInCache

----------------------------------------------------------------------------
(* C29 *)

\* resolve_ip_to_hostname, called on the query itself, accepts it as an
\* address
DirectCallAccepts(query) ==
    ResolveIpToHostname(last.pre.cache, last.pre.ts, last.t, query, TRUE, last.env).res.source
        # "validation"

\* C29: bulk_resolve with auto_detect_type sends a query to
\* resolve_ip_to_hostname exactly when resolve_ip_to_hostname, called on the
\* same string, accepts it as a valid address, padded strings included.
C29_AutoDetectAgreesWithValidation ==
    (last.op = "bulk_resolve" /\ last.auto)
        => \A i \in DOMAIN last.queries :
             last.calls[i] = "resolve_ip_to_hostname" <=> DirectCallAccepts(last.queries[i])

----------------------------------------------------------------------------
(* C30 *)

\* the device lists whose refresh gives the cache c
SnapshotsOf(c) == {b \in Batches : BuildCache(EmptyMap, b) = c}

\* C30: a router_data answer names a device of the snapshot in the cache:
\* resolve_hostname_to_ip(q) answering a from router_data means a device has
\* the lowercased hostname normalised q and the address a;
\* resolve_ip_to_hostname(i) answering h means a device has the address i and
\* the hostname h.
C30_RouterAnswerNamesDevice ==
    /\ (IsResolveHostname /\ Len(last.results) = 1 /\ last.results[1].source = "router_data")
         => \E b \in SnapshotsOf(cached_devices) : \E i \in DOMAIN b :
               /\ Lower(b[i].hostname) = NormHost
               /\ b[i].ip_address = last.results[1].result
    /\ (IsResolveIp /\ Len(last.results) = 1 /\ last.results[1].source = "router_data")
         => \E b \in SnapshotsOf(cached_devices) : \E i \in DOMAIN b :
               /\ b[i].ip_address = NormIp
               /\ b[i].hostname = last.results[1].result

----------------------------------------------------------------------------
(* NetworkResolutionAgent.execute_function, the entry point of function
   calling *)

\* Variant: the flag of the mapping is the literal True of the return statement,
\* whatever the flag of the result
ExecuteFunctionReportingSuccess(c, ts, t, function_name, fit, queries, include, auto, env) ==
    LET failed(msg) ==
            [cache |-> c, ts |-> ts, ev |-> <<>>, reads |-> <<>>, inner |-> <<>>, raised |-> "none",
             mapping |-> [success |-> FALSE, function |-> function_name, error |-> msg]]
        single(out) ==
            IF out.raised # "none"
            THEN failed(<<"Function execution failed: ", out.raised>>)
            ELSE [cache |-> out.cache, ts |-> out.ts, ev |-> out.ev, reads |-> out.reads,
                  inner |-> <<out.res>>, raised |-> "none",
                  mapping |-> DictUpdate(out.res, [success |-> TRUE, function |-> function_name])]
        bulk(out) ==
            IF out.raised # "none"
            THEN failed(<<"Function execution failed: ", out.raised>>)
            ELSE [cache |-> out.cache, ts |-> out.ts, ev |-> out.ev, reads |-> out.reads,
                  inner |-> out.results, raised |-> "none",
                  mapping |-> [success |-> TRUE, function |-> function_name,
                               results |-> out.results, count |-> Len(out.results)]]
        \* the message of the exception self.method(**kwargs) raises
        KwargsError ==
            IF fit = "missing" THEN "missing 1 required positional argument"
            ELSE IF fit = "unexpected" THEN "got an unexpected keyword argument"
            ELSE IF function_name = "bulk_resolve" THEN "'int' object is not iterable"
            ELSE "'int' object has no attribute 'strip'"
    IN  IF function_name \notin {"resolve_hostname_to_ip", "resolve_ip_to_hostname",
                                 "bulk_resolve", "get_network_info"}
        THEN failed(<<"Unknown function: ", function_name>>)
        ELSE IF function_name = "get_network_info" /\ fit = "not_text"
        THEN single([NetworkInfoFailure(<<"int(5)">>, "AttributeError",
                                        KwargsError, t)
                     EXCEPT !.raised = "none"]
                    @@ [cache |-> c, ts |-> ts, ev |-> <<>>, reads |-> <<>>])
        ELSE IF fit # "fits"
        THEN failed(<<"Function execution failed: ", KwargsError>>)
        ELSE IF function_name = "resolve_hostname_to_ip"
        THEN single(ResolveHostnameToIp(c, ts, t, queries[1], include, env))
        ELSE IF function_name = "resolve_ip_to_hostname"
        THEN single(ResolveIpToHostname(c, ts, t, queries[1], include, env))
        ELSE IF function_name = "bulk_resolve"
        THEN bulk(BulkResolve(c, ts, t, queries, auto, env))
        ELSE single(GetNetworkInfo(c, ts, t, queries[1], env))

\* execute_function(function_name, **kwargs)
ExecuteFunction(c, ts, t, function_name, fit, queries, include, auto, env) ==
    LET failed(msg) ==
            [cache |-> c, ts |-> ts, ev |-> <<>>, reads |-> <<>>, inner |-> <<>>, raised |-> "none",
             mapping |-> [success |-> FALSE, function |-> function_name, error |-> msg]]
        \* {"success": True, "function": function_name, **asdict(result)}
        single(out) ==
            IF out.raised # "none"
            THEN failed(<<"Function execution failed: ", out.raised>>)
            ELSE [cache |-> out.cache, ts |-> out.ts, ev |-> out.ev, reads |-> out.reads,
                  inner |-> <<out.res>>, raised |-> "none",
                  mapping |-> DictUpdate([success |-> TRUE, function |-> function_name], out.res)]
        bulk(out) ==
            IF out.raised # "none"
            THEN failed(<<"Function execution failed: ", out.raised>>)
            ELSE [cache |-> out.cache, ts |-> out.ts, ev |-> out.ev, reads |-> out.reads,
                  inner |-> out.results, raised |-> "none",
                  mapping |-> [success |-> TRUE, function |-> function_name,
                               results |-> out.results, count |-> Len(out.results)]]
        \* the message of the exception self.method(**kwargs) raises
        KwargsError ==
            IF fit = "missing" THEN "missing 1 required positional argument"
            ELSE IF fit = "unexpected" THEN "got an unexpected keyword argument"
            ELSE IF function_name = "bulk_resolve" THEN "'int' object is not iterable"
            ELSE "'int' object has no attribute 'strip'"
    IN  IF function_name \notin {"resolve_hostname_to_ip", "resolve_ip_to_hostname",
                                 "bulk_resolve", "get_network_info"}
        THEN failed(<<"Unknown function: ", function_name>>)
        ELSE IF function_name = "get_network_info" /\ fit = "not_text"
        THEN single([NetworkInfoFailure(<<"int(5)">>, "AttributeError",
                                        KwargsError, t)
                     EXCEPT !.raised = "none"]
                    @@ [cache |-> c, ts |-> ts, ev |-> <<>>, reads |-> <<>>])
        ELSE IF fit # "fits"
        THEN failed(<<"Function execution failed: ", KwargsError>>)
        ELSE IF function_name = "resolve_hostname_to_ip"
        THEN single(ResolveHostnameToIp(c, ts, t, queries[1], include, env))
        ELSE IF function_name = "resolve_ip_to_hostname"
        THEN single(ResolveIpToHostname(c, ts, t, queries[1], include, env))
        ELSE IF function_name = "bulk_resolve"
        THEN bulk(BulkResolve(c, ts, t, queries, auto, env))
        ELSE single(GetNetworkInfo(c, ts, t, queries[1], env))

\* The arguments of one call of execute_function. fit tells how **kwargs fit
\* the signature of the method: they bind and are text, the required argument
\* is missing, a keyword is not a parameter, or the required argument is the
\* integer 5 (written <<"int(5)">> where a record shows it)
ExecArgs ==
    LET fits == {"fits", "missing", "unexpected", "not_text"}
        \* the three single-result functions and a name that is none of the four
        single == {"resolve_hostname_to_ip", "resolve_ip_to_hostname", "get_network_info",
                   "_ping_host"}
    IN  [function_name : single, fit : fits,
         queries : {<<q>> : q \in {S_PI_pad, S_bad, IP_5, IP_pub}}, include : BOOLEAN,
         auto : {TRUE}]
            \cup [function_name : {"bulk_resolve"}, fit : fits,
                  queries : SeqsUpTo({S_PI_pad, IP_5}, MaxBulk), include : {TRUE},
                  auto : BOOLEAN]

CallExecuteFunction ==
    /\ last.op = "idle"
    /\ \E a \in ExecArgs :
       \E env \in Envs(use_router_data /\ Stale /\ a.fit = "fits", a.fit = "fits", a.fit = "fits",
                       FALSE, FALSE) :
         \E out \in {ExecuteFunction(cached_devices, cache_timestamp, now, a.function_name, a.fit,
                                     a.queries, a.include, a.auto, env)} :
             /\ cached_devices' = out.cache
             /\ cache_timestamp' = out.ts
             /\ last' = [op |-> "execute_function", args |-> a, env |-> UsedEnv(env, out.ev),
                         t |-> now, raised |-> out.raised, mapping |-> out.mapping,
                         inner |-> out.inner]
             /\ windowed' = windowed
    /\ UNCHANGED <<use_router_data, router_manager, now>>

----------------------------------------------------------------------------
(* utils.network_utils: is_valid_ip and is_private_ip, the functions the
   agent repeats as _is_valid_ip and _is_private_ip *)

\* Variant: only dotted IPv4 text is accepted
IsValidIpDottedOnly(ip_string) ==
    [raised |-> "none", val |-> ParseIPv4(ip_string) # <<>>]

\* is_valid_ip(ip_string): ip_address raises ValueError or returns
is_valid_ip(ip_string) ==
    IF IsValidIPCompute(ip_string)
    THEN [raised |-> "none", val |-> TRUE]
    ELSE [raised |-> "none", val |-> FALSE]     \* except ValueError

\* Variant: only the network 10.0.0.0/8 counts as private
IsPrivateIpTenOnly(ip_string) ==
    [raised |-> "none", val |-> ParseIPv4(ip_string) # <<>> /\ ParseIPv4(ip_string)[1] = 10]

\* is_private_ip(ip_string): ip.is_private, False when ip_address raises
\* ValueError
is_private_ip(ip_string) ==
    IF IsValidIPCompute(ip_string)
    THEN [raised |-> "none", val |-> IsPrivateIPCompute(ip_string)]
    ELSE [raised |-> "none", val |-> FALSE]     \* except ValueError

\* The strings the two functions are called with, each with what it was
\* written as: dotted text of four numbers (kind "v4", its numbers in o), IPv6
\* text (kind "v6", private or not), or text that is no address (kind "none")
IpInputs ==
    LET RECURSIVE Dec(_)
        Dec(n) == IF n < 10 THEN <<Digits[n + 1]>> ELSE Dec(n \div 10) \o <<Digits[(n % 10) + 1]>>
        Dotted(o) == Dec(o[1]) \o <<".">> \o Dec(o[2]) \o <<".">> \o Dec(o[3]) \o <<".">> \o Dec(o[4])
        v4 == {[text |-> Dotted(<<a, b, 0, d>>), kind |-> "v4", o |-> <<a, b, 0, d>>, private |-> FALSE] :
                 a \in {8, 9, 10, 11, 172, 192}, b \in {15, 16, 31, 32, 167, 168, 169},
                 d \in {1, 255}}
        v6 == {[text |-> IP_v6, kind |-> "v6", o |-> <<>>, private |-> TRUE],
               [text |-> <<"f", "d", "0", "0", ":", ":", "1", "0", ".", "0", ".", "0", ".", "5">>,
                kind |-> "v6", o |-> <<>>, private |-> TRUE],
               [text |-> <<"2", "6", "0", "0", ":", ":", "8", "8", "8", "8">>,
                kind |-> "v6", o |-> <<>>, private |-> FALSE],
               [text |-> <<"2", "6", "0", "0", ":", "0", ":", "0", ":", "0", ":", "0", ":", "0",
                           ":", "0", ":", "A", "b">>,
                kind |-> "v6", o |-> <<>>, private |-> FALSE]}
        none == {[text |-> str, kind |-> "none", o |-> <<>>, private |-> FALSE] :
                   str \in {S_empty, S_pi, S_pi_lan, S_x_io, S_bad, S_part, S_dots, IP_5_pad,
                            S_PI_pad, MAC_a,
                            Dotted(<<256, 0, 0, 1>>), Dotted(<<10, 0, 0, 300>>),
                            Dotted(<<1, 2, 3, 4>>) \o <<".", "5">>,
                            <<"1", ".", "2", ".", ".", "4">>,
                            <<"1", ".", "2", ".", "3", ".", "x">>,
                            <<":", ":", "g">>, <<":", ":", ":">>,
                            <<"1", ":", "2", ":", "3">>,
                            <<"f", "d", "0", "0", ":", ":", "1", ":", ":", "2">>}}
    IN  v4 \cup v6 \cup none

CallIsValidIp ==
    /\ last.op = "idle"
    /\ \E in \in IpInputs :
       \E out \in {is_valid_ip(in.text)} :
           last' = [op |-> "is_valid_ip", input |-> in, raised |-> out.raised, val |-> out.val]
    /\ UNCHANGED <<cached_devices, cache_timestamp, use_router_data, router_manager, now,
                   windowed>>

CallIsPrivateIp ==
    /\ last.op = "idle"
    /\ \E in \in IpInputs :
       \E out \in {is_private_ip(in.text)} :
           last' = [op |-> "is_private_ip", input |-> in, raised |-> out.raised, val |-> out.val]
    /\ UNCHANGED <<cached_devices, cache_timestamp, use_router_data, router_manager, now,
                   windowed>>

ToolNext ==
    \/ Tick
    \/ Consume
    \/ CallIsValidIp
    \/ CallIsPrivateIp
    \/ CallExecuteFunction

ToolSpec == Init /\ [][ToolNext]_vars

----------------------------------------------------------------------------
(* C28 *)

IsExecute == last.op = "execute_function"

\* the call names one of the four functions and its arguments fit
WellFormedCall ==
    /\ last.args.function_name \in
         {"resolve_hostname_to_ip", "resolve_ip_to_hostname", "bulk_resolve", "get_network_info"}
    /\ last.args.fit = "fits"

\* C28: execute_function returns a mapping and raises nothing; an unknown name
\* or arguments that do not fit give success = false with an error; for the
\* three single-result functions the flag of the mapping is the flag of the
\* ResolutionResult; for bulk_resolve count is the number of queries and the
\* i-th result answers the i-th query.
C28_ExecuteFunctionMapping ==
    IsExecute =>
        /\ last.raised = "none"
        /\ "success" \in DOMAIN last.mapping
        /\ ~WellFormedCall
             => /\ last.mapping.success = FALSE
                /\ "error" \in DOMAIN last.mapping
                /\ Truthy(last.mapping.error)
        /\ (last.args.function_name # "bulk_resolve" /\ Len(last.inner) = 1)
             => last.mapping.success = last.inner[1].success
        /\ (WellFormedCall /\ last.args.function_name # "bulk_resolve")
             => Len(last.inner) = 1
        /\ (WellFormedCall /\ last.args.function_name = "bulk_resolve")
             => /\ last.mapping.count = Len(last.args.queries)
                /\ Len(last.mapping.results) = Len(last.args.queries)
                /\ \A i \in DOMAIN last.args.queries :
                     last.mapping.results[i].query
                         \in {Strip(last.args.queries[i]), Lower(Strip(last.args.queries[i]))}

\* a resolution that failed inside execute_function, and a bulk call of two
\* different queries
C28_Witness ==
    /\ IsExecute
    /\ \/ /\ WellFormedCall
          /\ last.args.function_name = "resolve_hostname_to_ip"
          /\ Len(last.inner) = 1
          /\ ~last.inner[1].success
       \/ /\ WellFormedCall
          /\ last.args.function_name = "bulk_resolve"
          /\ Len(last.args.queries) = 2
          /\ last.args.queries[1] # last.args.queries[2]

----------------------------------------------------------------------------
(* C22 *)

\* C22: is_valid_ip returns true for text written as an IPv4 or IPv6 literal
\* and false for every other string (empty, hostnames, missing or empty
\* octets, octets above 255, padded text), and raises nothing.
C22_ValidIpDecided ==
    last.op = "is_valid_ip"
        => /\ last.raised = "none"
           /\ last.val \in BOOLEAN
           /\ last.val <=> last.input.kind \in {"v4", "v6"}

C22_Witness ==
    /\ last.op = "is_valid_ip"
    /\ last.input.kind = "v6"
    /\ last.val

----------------------------------------------------------------------------
(* C23 *)

\* the address is in 10.0.0.0/8, 172.16.0.0/12 or 192.168.0.0/16
InPrivateRange(o) ==
    \/ o[1] = 10
    \/ o[1] = 172 /\ o[2] \in 16..31
    \/ o[1] = 192 /\ o[2] = 168

\* C23: is_private_ip returns true for every literal of the three private
\* ranges and false for every public literal, a string that is no address
\* gives false, and nothing is raised.
C23_PrivateRangesDecided ==
    last.op = "is_private_ip"
        => /\ last.raised = "none"
           /\ last.input.kind = "v4" => (last.val <=> InPrivateRange(last.input.o))
           /\ last.input.kind = "v6" => (last.val <=> last.input.private)
           /\ last.input.kind = "none" => ~last.val

C23_Witness ==
    /\ last.op = "is_private_ip"
    /\ last.input.kind = "v4"
    /\ last.input.o[1] = 172 /\ last.input.o[2] = 31
    /\ last.val

----------------------------------------------------------------------------
(* C21 *)

IsLoadConfig == last.op = "load_config"

\* the file exists and open(..., 'r') succeeds
Readable == last.file.kind \in {"object", "array", "not_json"}

\* every default key is in the mapping returned, a key of the file has the
\* value of the file, any other default key has the default value
MergedWithDefaults ==
    LET inFile == IF last.file.kind = "object" THEN DOMAIN last.file.content ELSE {}
    IN  /\ DOMAIN DefaultConfig \subseteq DOMAIN last.config
        /\ \A k \in inFile : last.config[k] = last.file.content[k]
        /\ \A k \in DOMAIN DefaultConfig \ inFile : last.config[k] = DefaultConfig[k]

FileHoldsDefaults == last.file_after = [kind |-> "object", content |-> DefaultConfig]

----------------------------------------------------------------------------
(* C26 *)

\* C26: load_config leaves a config file that exists as it is, whatever it
\* holds: all keys, some keys, or text that cannot be parsed.
C26_ExistingFileUntouched ==
    (IsLoadConfig /\ last.file.kind # "absent")
        => last.file_after = last.file /\ ~last.wrote

====
